---- MODULE Spec2Model ----
(***************************************************************************)
(* Voter CSV ingestion pipeline of Tech-Tandav/voters: the synchronous     *)
(* CSVProcessor.process(), the Celery orchestrator import_voters_csv, the  *)
(* chunk worker import_voters_csv_chunk, the Voter and UploadHistory       *)
(* tables, and the pure row helpers (surname extraction, normalisation,    *)
(* caste resolution, gender translation, age bracket).                     *)
(*                                                                         *)
(* Text is modelled as a sequence of one-character strings.  Devanagari    *)
(* surnames of the source are written in an ASCII transliteration, letter  *)
(* for letter, because the module's strings are ASCII.                     *)
(***************************************************************************)
EXTENDS Integers, Sequences, FiniteSets, TLC

VARIABLES
    orm,        \* which Model.save() the installed Django's update_or_create issues
    voters,     \* committed rows of the Voter table
    uploads,    \* rows of the UploadHistory table, in creation order
    procs,      \* per process: the running operation, its local variables, its last return
    jobs,       \* every chunk task sent to the "imports" queue, in dispatch order
    imports,    \* descriptors returned by import_voters_csv, in call order
    started,    \* number of top-level operations started so far
    last,       \* the batch whose commit last wrote the Voter table, and how often in a row
    mapper,     \* the SurnameMapping table, the cache, each process's CasteMapper, the clock
    call        \* the last call of a helper made on its own: function, argument, result

vars == <<orm, voters, uploads, procs, jobs, imports, started, last, mapper, call>>

----------------------------------------------------------------------------
(* Bounds of the model. *)

\* Top-level operations (process() calls and orchestrator calls) per behaviour.
MaxImports == 2

\* Half expiry windows the clock of the resolver runs through.
MaxTicks == 3

\* Edits of the SurnameMapping table per behaviour.
MaxWrites == 1

\* Characters of a name given to extract_surname.
MaxNameLen == 4

----------------------------------------------------------------------------
(* Python and pandas values of one CSV cell. *)

\* An integer cell, e.g. 25.
I(n) == [n |-> n, t |-> "int", s |-> <<>>]

\* A float cell with a fractional part, e.g. 25.5; n is its integer part.
F(n) == [n |-> n, t |-> "float", s |-> <<>>]

\* A text cell.
S(s) == [n |-> 0, t |-> "str", s |-> s]

\* A missing cell (pandas NaN).
NaN == [n |-> 0, t |-> "nan", s |-> <<>>]

\* Python None, for the nullable columns of the Voter table.
None == [n |-> 0, t |-> "none", s |-> <<>>]

Digits == <<"0", "1", "2", "3", "4", "5", "6", "7", "8", "9">>

IsDigit(c) == \E d \in 1..10 : Digits[d] = c

DigitVal(c) == (CHOOSE d \in 1..10 : Digits[d] = c) - 1

RECURSIVE ParseDigits(_)
ParseDigits(s) ==
    IF s = <<>> THEN 0
    ELSE 10 * ParseDigits(SubSeq(s, 1, Len(s) - 1)) + DigitVal(s[Len(s)])

IsSpace(c) == c \in {" ", "\t", "\n"}

RECURSIVE LStrip(_)
LStrip(s) == IF s # <<>> /\ IsSpace(Head(s)) THEN LStrip(Tail(s)) ELSE s

RECURSIVE RStripChars(_, _)
RStripChars(s, chars) ==
    IF s # <<>> /\ s[Len(s)] \in chars
    THEN RStripChars(SubSeq(s, 1, Len(s) - 1), chars)
    ELSE s

\* str.strip()
Strip(s) == RStripChars(LStrip(s), {" ", "\t", "\n"})

\* str.split(): the maximal runs of non-whitespace characters, in order.
RECURSIVE SplitFrom(_, _, _)
SplitFrom(s, cur, acc) ==
    IF s = <<>> THEN (IF cur = <<>> THEN acc ELSE Append(acc, cur))
    ELSE IF IsSpace(Head(s))
         THEN SplitFrom(Tail(s), <<>>, IF cur = <<>> THEN acc ELSE Append(acc, cur))
         ELSE SplitFrom(Tail(s), Append(cur, Head(s)), acc)

Split(s) == SplitFrom(s, <<>>, <<>>)

\* ' '.join(parts)
RECURSIVE Join(_)
Join(parts) ==
    IF parts = <<>> THEN <<>>
    ELSE IF Len(parts) = 1 THEN parts[1]
    ELSE parts[1] \o <<" ">> \o Join(Tail(parts))

\* int(x): [ok, v]; ok is FALSE where Python raises ValueError.
PyInt(c) ==
    CASE c.t = "int" -> [ok |-> TRUE, v |-> c.n]
      [] c.t = "float" -> [ok |-> TRUE, v |-> c.n]
      [] c.t = "str" ->
            LET d == Strip(c.s) IN
            IF d # <<>> /\ \A k \in 1..Len(d) : IsDigit(d[k])
            THEN [ok |-> TRUE, v |-> ParseDigits(d)]
            ELSE [ok |-> FALSE, v |-> 0]
      [] OTHER -> [ok |-> FALSE, v |-> 0]

\* str(x) of a text or missing cell (str(nan) is 'nan').
PyStr(c) ==
    CASE c.t = "str" -> c.s
      [] c.t = "nan" -> <<"n", "a", "n">>
      [] OTHER -> <<"#">>

\* pd.isna(x)
IsNa(c) == c.t = "nan"

----------------------------------------------------------------------------
(* surname_extractor.py *)

\* An extraction that takes the periods off with the other punctuation.
extract_surname_no_periods(full_name) ==
    IF full_name.t # "str" \/ full_name.s = <<>> THEN <<>>
    ELSE LET parts == Split(full_name.s)
         IN  IF parts = <<>> THEN <<>>
             ELSE RStripChars(parts[Len(parts)], {",", ";", ":", "!", "."})

extract_surname(full_name) ==
    IF full_name.t # "str" \/ full_name.s = <<>> THEN <<>>
    ELSE LET cleaned_name == Join(Split(full_name.s))
             parts == Split(cleaned_name)
         IN  IF cleaned_name = <<>> THEN <<>>
             ELSE IF Len(parts) = 1 THEN parts[1]
             ELSE RStripChars(parts[Len(parts)], {",", ";", ":", "!"})

\* The variations table: vudhathoki -> budhathoki, bi.ka. -> vi.ka.,
\* bohara -> vohara (transliterated).
variations ==
    ( <<"v","u","d","h","a","t","h","o","k","i">> :> <<"b","u","d","h","a","t","h","o","k","i">> )
    @@ ( <<"b","i",".","k","a",".">> :> <<"v","i",".","k","a",".">> )
    @@ ( <<"b","o","h","a","r","a">> :> <<"v","o","h","a","r","a">> )

normalize_surname(surname) ==
    IF surname = <<>> THEN <<>>
    ELSE LET normalized == Strip(surname)
         IN  IF normalized \in DOMAIN variations THEN variations[normalized]
             ELSE normalized

----------------------------------------------------------------------------
(* caste_mapper.py *)

\* Rows of the SurnameMapping table: thapa and vohara are mapped and active,
\* magar is mapped but inactive.
SurnameMappingRows ==
    { [surname |-> <<"t","h","a","p","a">>, caste_group |-> "chhetri", is_active |-> TRUE],
      [surname |-> <<"v","o","h","a","r","a">>, caste_group |-> "chhetri", is_active |-> TRUE],
      [surname |-> <<"m","a","g","a","r">>, caste_group |-> "janajati", is_active |-> FALSE] }

\* A loader that keeps the rows whatever their is_active.
_load_all(table) ==
    [ sn \in { m.surname : m \in table } |->
        (CHOOSE m \in table : m.surname = sn).caste_group ]

\* CasteMapper._load_mappings on a cold cache: {surname: caste_group} of the
\* active rows.
_load_mappings(table) ==
    LET active == { m \in table : m.is_active }
    IN  [ sn \in { m.surname : m \in active } |->
            (CHOOSE m \in active : m.surname = sn).caste_group ]

CACHE_TIMEOUT == 3600

\* The mapping held by the process-wide CasteMapper singleton.
mappings == _load_mappings(SurnameMappingRows)

\* SurnameMapping.CASTE_CHOICES
CASTE_CHOICES ==
    { "brahmin", "chhetri", "janajati", "dalit", "madhesi", "muslim", "other", "unknown" }

\* A lookup that treats a surname it does not hold as an error.
CasteOrKeyError(held, surname) ==
    IF surname \in DOMAIN held THEN held[surname] ELSE "KeyError"

\* CasteMapper.get_caste_group on a mapper whose self.mappings is held.
CasteOf(held, surname) ==
    IF surname = <<>> THEN "unknown"
    ELSE IF surname \in DOMAIN held /\ held[surname] # ""
         THEN held[surname]
    ELSE IF \E key \in DOMAIN held : key = surname
         THEN held[CHOOSE key \in DOMAIN held : key = surname]
    ELSE "unknown"

get_caste_group(surname) == CasteOf(mappings, surname)

map_surname_to_caste(surname) == get_caste_group(surname)

----------------------------------------------------------------------------
(* models.py *)

\* Voter.save(): the age bracket is set from the age before the row is written.
AgeGroupOf(age) ==
    IF 18 <= age /\ age <= 29 THEN "gen_z"
    ELSE IF 30 <= age /\ age <= 45 THEN "working"
    ELSE IF 46 <= age /\ age <= 60 THEN "mature"
    ELSE "senior"

\* A save() that leaves age_group as it is.
SaveAsIs(self) == self

Voter_save(self) == [self EXCEPT !.age_group = AgeGroupOf(self.age)]

\* A column without the unique constraint.
NoUniqueConstraint(table, voter_id) == FALSE

\* Voter.voter_id is unique=True: the store refuses a second row with the id.
UniqueViolation(table, voter_id) == \E r \in table : r.voter_id = voter_id

\* BaseModel.id: a fresh primary key (uuid4), here the least unused number.
NewPk(used) == CHOOSE k \in 1..(Cardinality(used) + 1) : k \notin used

----------------------------------------------------------------------------
(* csv_processor.py *)

REQUIRED_COLUMNS ==
    {"Province", "District", "Municipality", "Ward", "Center",
     "VoterID", "Name", "Age", "Gender", "Spouse", "Parent"}

\* Nepali tokens transliterated: purush, mahila, anya.
GENDER_MAPPING ==
    ( <<"p","u","r","u","s","h">> :> "male" )
    @@ ( <<"m","a","h","i","l","a">> :> "female" )
    @@ ( <<"a","n","y","a">> :> "other" )
    @@ ( <<"m","a","l","e">> :> "male" )
    @@ ( <<"f","e","m","a","l","e">> :> "female" )
    @@ ( <<"o","t","h","e","r">> :> "other" )

\* A translation that has no default.
GenderOrNone(raw) ==
    IF raw \in DOMAIN GENDER_MAPPING THEN GENDER_MAPPING[raw] ELSE ""

\* self.GENDER_MAPPING.get(gender_nepali, 'other')
GenderOf(raw) ==
    IF raw \in DOMAIN GENDER_MAPPING THEN GENDER_MAPPING[raw] ELSE "other"

\* The caller's context: CSVProcessor has the attributes province_override and
\* constituency_override only when a caller set them after construction.
NoOverride == [has |-> FALSE, province |-> None, constituency |-> None]

\* A processor on which the caller's attributes are set and never read.
OverrideUnread(province, constituency) ==
    [has |-> FALSE, province |-> province, constituency |-> constituency]

Override(province, constituency) ==
    [has |-> TRUE, province |-> province, constituency |-> constituency]

\* CSVProcessor._process_row up to the update_or_create call: the keyword
\* arguments it builds, or the exception raised while building them.
\* unmapped is the surname added to self.unmapped_surnames, if any; it is
\* added before the later conversions can raise.
_process_row(row, ctx) ==
    LET name == Strip(PyStr(row.Name))
        age == PyInt(row.Age)
        gender_nepali == Strip(PyStr(row.Gender))
        surname == extract_surname(S(name))
        normalized_surname == normalize_surname(surname)
        caste_group == map_surname_to_caste(normalized_surname)
        gender == GenderOf(gender_nepali)
        spouse == IF IsNa(row.Spouse) \/ row.Spouse = S(<<"-">>) THEN None ELSE row.Spouse
        parent == IF IsNa(row.Parent) THEN None ELSE row.Parent
        province_val == IF ctx.has THEN ctx.province ELSE S(PyStr(row.Province))
        constituency_val == IF ctx.has THEN ctx.constituency ELSE None
        voter_id == PyInt(row.VoterID)
        ward == PyInt(row.Ward)
        noted == IF age.ok /\ caste_group = "unknown" THEN {surname} ELSE {}
    IN  IF ~age.ok THEN [ok |-> FALSE, error |-> "Age", unmapped |-> {}]
        ELSE IF ~voter_id.ok THEN [ok |-> FALSE, error |-> "VoterID", unmapped |-> noted]
        ELSE IF ~ward.ok THEN [ok |-> FALSE, error |-> "Ward", unmapped |-> noted]
        ELSE [ok |-> TRUE, error |-> "", unmapped |-> noted,
              voter_id |-> voter_id.v,
              defaults |->
                [name |-> name, surname |-> surname, age |-> age.v,
                 gender |-> gender, caste_group |-> caste_group,
                 province |-> province_val,
                 district |-> PyStr(row.District),
                 municipality |-> PyStr(row.Municipality),
                 ward |-> ward.v,
                 constituency |-> constituency_val,
                 center |-> PyStr(row.Center),
                 spouse |-> spouse, parent |-> parent]]

\* Voter(voter_id=..., **defaults) as the create branch of update_or_create
\* saves it: every column is written, age_group as Voter.save() set it.
CreateVoter(pk, voter_id, d) ==
    Voter_save(
      [pk |-> pk, voter_id |-> voter_id, name |-> d.name, surname |-> d.surname,
       age |-> d.age, age_group |-> "", gender |-> d.gender,
       caste_group |-> d.caste_group, province |-> d.province,
       district |-> d.district, municipality |-> d.municipality, ward |-> d.ward,
       constituency |-> d.constituency, center |-> d.center,
       spouse |-> d.spouse, parent |-> d.parent])

\* An update that stores a new version of the row under the next primary key
\* and leaves the stored one in place.
UpdateAsNewVersion(old, d, mode) ==
    [CreateVoter(old.pk, old.voter_id, d) EXCEPT !.pk = old.pk + 1]

\* The update branch of update_or_create: the defaults are set on the stored
\* object and it is saved.  Voter.save() sets age_group on the object; a
\* Django before 4.2 then writes every column ("all_fields"), a Django from
\* 4.2 on passes update_fields = the keys of defaults, so the age_group column
\* keeps its stored value ("update_fields").
UpdateVoter(old, d, mode) ==
    LET obj == Voter_save(
                 [old EXCEPT !.name = d.name, !.surname = d.surname, !.age = d.age,
                    !.gender = d.gender, !.caste_group = d.caste_group,
                    !.province = d.province, !.district = d.district,
                    !.municipality = d.municipality, !.ward = d.ward,
                    !.constituency = d.constituency, !.center = d.center,
                    !.spouse = d.spouse, !.parent = d.parent])
    IN  IF mode = "all_fields" THEN obj
        ELSE [obj EXCEPT !.age_group = old.age_group]

\* CSVProcessor.validate_csv on a file [cols, rows]: [ok, error].  A column
\* read by pandas is numeric exactly when none of its cells is text.
validate_csv(file) ==
    LET n == Len(file.rows)
        Col(c) == { file.rows[k][c] : k \in 1..n }
    IN  IF n = 0 THEN [ok |-> FALSE, error |-> "CSV file is empty"]
        ELSE IF REQUIRED_COLUMNS \ file.cols # {}
             THEN [ok |-> FALSE, error |-> "Missing required columns"]
        ELSE IF \E c \in Col("Age") : c.t = "str"
             THEN [ok |-> FALSE, error |-> "Age column must contain numeric values"]
        ELSE IF \E c \in Col("VoterID") : c.t = "str"
             THEN [ok |-> FALSE, error |-> "VoterID column must contain numeric values"]
        ELSE IF \E c \in Col("Name") : IsNa(c)
             THEN [ok |-> FALSE, error |-> "Name column contains empty values"]
        ELSE IF \E c \in Col("Age") : IsNa(c)
             THEN [ok |-> FALSE, error |-> "Age column contains empty values"]
        ELSE IF \E c \in Col("Gender") : IsNa(c)
             THEN [ok |-> FALSE, error |-> "Gender column contains empty values"]
        ELSE [ok |-> TRUE, error |-> ""]

----------------------------------------------------------------------------
(* The store: committed Voter rows, and per transaction the row versions it  *)
(* has written and not yet committed.  A transaction holds the lock of every *)
(* voter_id it has written until it ends (READ COMMITTED with row locks).    *)

Processes == {1, 2}

NoRet ==
    [error |-> "", unmapped |-> {}, kind |-> "none", success |-> FALSE,
     total |-> 0, imported |-> 0, failed |-> 0, errors |-> <<>>]

Idle ==
    [ctx |-> NoOverride, unmapped |-> {}, rows |-> <<>>, imported |-> 0, failed |-> 0,
     errors |-> <<>>, pc |-> "idle", i |-> 0, writes |-> {}, upload |-> 0,
     job |-> 0, existing |-> {}, ret |-> NoRet]

\* The processes other than p whose open transaction has written voter_id.
Holders(p, voter_id) ==
    { q \in Processes \ {p} : \E w \in procs[q].writes : w.voter_id = voter_id }

UsedPks ==
    { r.pk : r \in voters } \cup
    UNION { { w.pk : w \in procs[q].writes } : q \in Processes }

\* A commit that leaves only what the transaction wrote.
ReplaceTable(table, writes) == writes

\* COMMIT: the written versions replace the committed rows of the same pk.
ApplyWrites(table, writes) ==
    { r \in table : r.pk \notin { w.pk : w \in writes } } \cup writes

\* A store without transactions: the writes stay.
CommitAnyway(table, writes) == ApplyWrites(table, writes)

\* ROLLBACK of transaction.atomic(): the table is as it was.
Rollback(table, writes) == table

\* The record of a commit: the batch, its context, the rows the run counted
\* as failed although it committed, and the number of commits of this same
\* batch in a row.
Committed(kind, st, failed) ==
    [kind |-> kind, rows |-> st.rows, ctx |-> st.ctx, failed |-> failed,
     runs |-> IF last.kind # "none" /\ last.rows = st.rows /\ last.ctx = st.ctx
              THEN last.runs + 1 ELSE 1]

\* The row of index i (1-based here; pandas' index is i - 1) as the loop of
\* process() counts it after the next step.
Advance(st, n) ==
    [st EXCEPT !.i = st.i + 1, !.pc = IF st.i + 1 > n THEN "commit" ELSE "row"]

\* A loop that logs the error of a row and does not count it.
RowErrorUncounted(st, msg, unmapped) ==
    Advance([st EXCEPT !.errors = Append(st.errors, [row |-> st.i + 1, msg |-> msg]),
                       !.unmapped = st.unmapped \cup unmapped],
            Len(st.rows))

RowError(st, msg, unmapped) ==
    Advance([st EXCEPT !.failed = st.failed + 1,
                       !.errors = Append(st.errors, [row |-> st.i + 1, msg |-> msg]),
                       !.unmapped = st.unmapped \cup unmapped],
            Len(st.rows))

\* The keyword arguments of the row the process is at.
Built(st) == _process_row(st.rows[st.i], st.ctx)

\* A loop that inserts a new row where update_or_create would update.
UpsertBlind(st, old, b, mode) ==
    Advance([st EXCEPT !.writes = st.writes \cup
                          { CreateVoter(NewPk(UsedPks), b.voter_id, b.defaults) },
                       !.imported = st.imported + 1,
                       !.unmapped = st.unmapped \cup b.unmapped],
            Len(st.rows))

\* Voter.objects.update_or_create found the row (old, committed or written by
\* this transaction): the update branch.
UpsertFound(st, old, b, mode) ==
    Advance([st EXCEPT !.writes = { w \in st.writes : w.pk # old.pk }
                                   \cup { UpdateVoter(old, b.defaults, mode) },
                       !.imported = st.imported + 1,
                       !.unmapped = st.unmapped \cup b.unmapped],
            Len(st.rows))

\* The create branch after the INSERT was accepted.
UpsertCreated(st, pk, b) ==
    Advance([st EXCEPT !.writes = st.writes \cup { CreateVoter(pk, b.voter_id, b.defaults) },
                       !.imported = st.imported + 1],
            Len(st.rows))

----------------------------------------------------------------------------
(* CSVProcessor.process() *)

\* A process() that keeps one ledger record per file name and starts it over.
ProcessRestart(p, file, ctx) ==
    /\ procs[p].pc = "idle"
    /\ started < MaxImports
    /\ started' = started + 1
    /\ uploads' =
          LET fresh == [op |-> started + 1, total_records |-> Len(file.rows),
                        success_count |-> 0, error_count |-> 0, status |-> "processing",
                        error_log |-> "", unmapped_surnames |-> {}]
          IN  IF uploads = <<>> THEN <<fresh>> ELSE [uploads EXCEPT ![1] = fresh]
    /\ procs' = [procs EXCEPT ![p] =
          [Idle EXCEPT !.pc = "row", !.rows = file.rows, !.ctx = ctx, !.i = 1,
                       !.upload = 1]]
    /\ UNCHANGED <<call, mapper, orm, voters, jobs, imports, last>>

\* process() up to the first row: validation, then the UploadHistory row.
\* A file that fails validation stays loaded in the processor (self.df).
ProcessStart(p, file, ctx) ==
    /\ procs[p].pc = "idle"
    /\ started < MaxImports
    /\ started' = started + 1
    /\ LET v == validate_csv(file) IN
       IF ~v.ok
       THEN /\ procs' = [procs EXCEPT ![p] =
                  [Idle EXCEPT !.rows = file.rows,
                               !.ret = [NoRet EXCEPT !.kind = "dict", !.error = v.error]]]
            /\ UNCHANGED uploads
       ELSE /\ uploads' = Append(uploads,
                  [op |-> started + 1, total_records |-> Len(file.rows),
                   success_count |-> 0, error_count |-> 0, status |-> "processing",
                   error_log |-> "", unmapped_surnames |-> {}])
            /\ procs' = [procs EXCEPT ![p] =
                  [Idle EXCEPT !.pc = "row", !.rows = file.rows, !.ctx = ctx, !.i = 1,
                               !.upload = Len(uploads) + 1]]
    /\ UNCHANGED <<call, mapper, orm, voters, jobs, imports, last>>

\* One iteration of the loop up to the SELECT ... FOR UPDATE of
\* update_or_create: a conversion error is counted; a found row is updated
\* once its lock is free; a missing row leads to the INSERT.
ProcessRow(p) ==
    LET st == procs[p]
        b == Built(st)
    IN  /\ st.pc = "row"
        /\ IF ~b.ok
           THEN procs' = [procs EXCEPT ![p] = RowError(st, b.error, b.unmapped)]
           ELSE LET own == { w \in st.writes : w.voter_id = b.voter_id }
                    stored == { r \in voters : r.voter_id = b.voter_id }
                IN  IF own # {}
                    THEN procs' = [procs EXCEPT ![p] =
                            UpsertFound(st, CHOOSE w \in own : TRUE, b, orm)]
                    ELSE IF stored # {}
                    THEN /\ Holders(p, b.voter_id) = {}
                         /\ procs' = [procs EXCEPT ![p] =
                               UpsertFound(st, CHOOSE r \in stored : TRUE, b, orm)]
                    ELSE procs' = [procs EXCEPT ![p] =
                            [st EXCEPT !.pc = "create",
                                       !.unmapped = st.unmapped \cup b.unmapped]]
        /\ UNCHANGED <<call, mapper, orm, voters, uploads, jobs, imports, started, last>>

\* The INSERT of get_or_create: it waits for a transaction that has written
\* the same voter_id; an IntegrityError sends update_or_create back to the
\* lookup, which then finds the row.
ProcessCreate(p) ==
    LET st == procs[p]
        b == Built(st)
    IN  /\ st.pc = "create"
        /\ Holders(p, b.voter_id) = {}
        /\ IF UniqueViolation(voters, b.voter_id)
           THEN procs' = [procs EXCEPT ![p] = [st EXCEPT !.pc = "row"]]
           ELSE procs' = [procs EXCEPT ![p] = UpsertCreated(st, NewPk(UsedPks), b)]
        /\ UNCHANGED <<call, mapper, orm, voters, uploads, jobs, imports, started, last>>

\* Leaving the atomic block: COMMIT, then the UploadHistory row is completed
\* and the result dict returned.
ProcessCommit(p) ==
    LET st == procs[p] IN
    /\ st.pc = "commit"
    /\ voters' = ApplyWrites(voters, st.writes)
    /\ uploads' = [uploads EXCEPT ![st.upload] =
          [@ EXCEPT !.success_count = st.imported, !.error_count = st.failed,
                    !.status = "completed",
                    !.error_log = IF st.errors # <<>> THEN "errors" ELSE "",
                    !.unmapped_surnames = st.unmapped]]
    /\ procs' = [procs EXCEPT ![p] =
          [Idle EXCEPT !.ret =
             [kind |-> "dict", success |-> TRUE, error |-> "", total |-> Len(st.rows),
              imported |-> st.imported, failed |-> st.failed,
              unmapped |-> st.unmapped, errors |-> st.errors]]]
    /\ last' = Committed("process", st, st.failed)
    /\ UNCHANGED <<call, mapper, orm, jobs, imports, started>>

\* The COMMIT fails (connection lost, constraint): the transaction is rolled
\* back, the outer except marks the UploadHistory row failed and process()
\* returns the error with the loop's counters.
ProcessCommitFail(p) ==
    LET st == procs[p] IN
    /\ st.pc = "commit"
    /\ voters' = Rollback(voters, st.writes)
    /\ uploads' = [uploads EXCEPT ![st.upload] =
          [@ EXCEPT !.status = "failed", !.error_log = "database error"]]
    /\ procs' = [procs EXCEPT ![p] =
          [Idle EXCEPT !.ret =
             [kind |-> "dict", success |-> FALSE, error |-> "database error",
              total |-> Len(st.rows), imported |-> st.imported,
              failed |-> st.failed, unmapped |-> {}, errors |-> <<>>]]]
    /\ UNCHANGED <<call, mapper, orm, jobs, imports, started, last>>

\* The voter_id a process is waiting to lock, if any.
Waiting(p) ==
    LET st == procs[p] IN
    IF st.pc \in {"row", "create"} /\ Built(st).ok
    THEN LET v == Built(st).voter_id IN
         IF /\ \A w \in st.writes : w.voter_id # v
            /\ Holders(p, v) # {}
            /\ (st.pc = "create" \/ \E r \in voters : r.voter_id = v)
         THEN {v} ELSE {}
    ELSE {}

\* The store detects a lock cycle and aborts the statement of one of the two
\* transactions; its savepoint is rolled back and the loop of process() counts
\* the row as failed.
DbDeadlock(p) ==
    LET st == procs[p] IN
    /\ \E q \in Processes \ {p} :
          /\ \E v \in Waiting(p) : q \in Holders(p, v)
          /\ \E v \in Waiting(q) : p \in Holders(q, v)
    /\ procs' = [procs EXCEPT ![p] = RowError(st, "deadlock detected", Built(st).unmapped)]
    /\ UNCHANGED <<call, mapper, orm, voters, uploads, jobs, imports, started, last>>

----------------------------------------------------------------------------
(* tasks.py.  CSVProcessor.read_rows and CSVProcessor.process_batch are     *)
(* called by the tasks and are not defined by csv_processor.py: they follow *)
(* sections 4.3 to 4.5 of the specification.                                *)

BATCH_SIZE == 1000

max_retries == 0

\* autoretry_for=(): no exception class is retried automatically.
autoretry_for == {}

\* A task declared with a retry budget of one.
RetryOnce(job) == job.retries < 1

\* Celery's autoretry: a raised exception of a listed class re-queues the
\* task while its retries are below max_retries.
ShouldRetry(job) == "Exception" \in autoretry_for /\ job.retries < max_retries

\* An integer cell: a whole number, or text made of digits.
IsInteger(c) ==
    \/ c.t = "int"
    \/ c.t = "str" /\ Strip(c.s) # <<>> /\ \A k \in 1..Len(Strip(c.s)) : IsDigit(Strip(c.s)[k])

\* Row Builder's validation (section 4.3): age an integer in [18,150], voter
\* id an integer, every required textual field present.
RowValid(row) ==
    /\ IsInteger(row.Age) /\ PyInt(row.Age).v >= 18 /\ PyInt(row.Age).v <= 150
    /\ IsInteger(row.VoterID)
    /\ IsInteger(row.Ward)
    /\ \A c \in {"Province", "District", "Municipality", "Center", "Name", "Gender"} :
          ~IsNa(row[c])

\* File Reader (section 4.5): the file's rows as raw row mappings.
read_rows(file) == file.rows

\* Batch Upserter (section 4.4) on the rows and the records fetched for their
\* voter ids: the rows built, keyed by voter id (a later row of the same id
\* replaces an earlier one), split into inserts and updates.
process_batch(rows, ctx, existing) ==
    LET ok == { k \in 1..Len(rows) : RowValid(rows[k]) }
        IdOf(k) == PyInt(rows[k].VoterID).v
        ids == { IdOf(k) : k \in ok }
        LastOf(v) == CHOOSE k \in ok : IdOf(k) = v /\ \A m \in ok : IdOf(m) = v => m <= k
        Fields(v) == _process_row(rows[LastOf(v)], ctx).defaults
        matched == { v \in ids : \E e \in existing : e.voter_id = v }
    IN  [imported |-> Cardinality(ok),
         failed |-> Len(rows) - Cardinality(ok),
         errors |-> { k + 1 : k \in (1..Len(rows)) \ ok },
         unmapped |-> UNION { _process_row(rows[k], ctx).unmapped : k \in ok },
         inserts |-> { [voter_id |-> v, defaults |-> Fields(v)] : v \in ids \ matched },
         updates |-> { UpdateVoter(CHOOSE e \in existing : e.voter_id = v,
                                   Fields(v), "all_fields") : v \in matched }]

\* bulk_create of the inserts: each gets a fresh primary key.
BulkCreate(inserts, used) ==
    LET n == Cardinality(inserts)
        free == (1..(Cardinality(used) + n)) \ used
        Rank(v) == Cardinality({ x \in inserts : x.voter_id <= v })
        Pk(v) == CHOOSE k \in free : k - Cardinality({ u \in used : u < k }) = Rank(v)
    IN  { CreateVoter(Pk(x.voter_id), x.voter_id, x.defaults) : x \in inserts }

\* A chunker whose batches take the first row of the next batch along.
BatchesLapping(rows, size) ==
    [ k \in 1..((Len(rows) + size - 1) \div size) |->
        SubSeq(rows, (k - 1) * size + 1,
               IF k * size + 1 < Len(rows) THEN k * size + 1 ELSE Len(rows)) ]

\* A chunker that cuts full batches only.
BatchesFull(rows, size) ==
    [ k \in 1..(Len(rows) \div size) |->
        SubSeq(rows, (k - 1) * size + 1, k * size) ]

\* rows[i:i + BATCH_SIZE] for i in range(0, len(rows), BATCH_SIZE)
Batches(rows, size) ==
    [ k \in 1..((Len(rows) + size - 1) \div size) |->
        SubSeq(rows, (k - 1) * size + 1,
               IF k * size < Len(rows) THEN k * size ELSE Len(rows)) ]

NewJob(imp, batch, province, constituency) ==
    [imp |-> imp, rows |-> batch, n |-> Len(batch), province |-> province,
     constituency |-> constituency, state |-> "queued", retries |-> 0,
     attempts |-> 0, imported |-> 0, failed |-> 0, raised |-> FALSE]

\* An orchestrator that opens the ledger record of the file before it
\* dispatches.
ImportVotersCsvWithLedger(file, province, constituency) ==
    /\ started < MaxImports
    /\ started' = started + 1
    /\ LET rows == read_rows(file)
           batches == Batches(rows, BATCH_SIZE)
           new == [ k \in 1..Len(batches) |->
                      NewJob(Len(imports) + 1, batches[k], province, constituency) ]
       IN  /\ jobs' = jobs \o new
           /\ imports' = Append(imports,
                 [op |-> started + 1, rows |-> Len(rows), province |-> province,
                  constituency |-> constituency, chunks |-> Len(new),
                  first |-> Len(jobs) + 1])
           /\ uploads' = Append(uploads,
                 [op |-> started + 1, total_records |-> Len(rows),
                  success_count |-> 0, error_count |-> 0, status |-> "processing",
                  error_log |-> "", unmapped_surnames |-> {}])
    /\ UNCHANGED <<call, mapper, orm, voters, procs, last>>

\* import_voters_csv: read the rows, cut them into batches, send one chunk
\* task per batch to the "imports" queue, return the descriptor.
ImportVotersCsv(file, province, constituency) ==
    /\ started < MaxImports
    /\ started' = started + 1
    /\ LET rows == read_rows(file)
           batches == Batches(rows, BATCH_SIZE)
           new == [ k \in 1..Len(batches) |->
                      NewJob(Len(imports) + 1, batches[k], province, constituency) ]
       IN  /\ jobs' = jobs \o new
           /\ imports' = Append(imports,
                 [op |-> started + 1, rows |-> Len(rows), province |-> province,
                  constituency |-> constituency, chunks |-> Len(new),
                  first |-> Len(jobs) + 1])
    /\ UNCHANGED <<call, mapper, orm, voters, uploads, procs, last>>

\* A worker takes a queued chunk task: import_voters_csv_chunk up to the
\* existence query of process_batch.
ChunkTake(p, j) ==
    /\ procs[p].pc = "idle"
    /\ jobs[j].state = "queued"
    /\ jobs' = [jobs EXCEPT ![j] = [@ EXCEPT !.state = "started", !.attempts = @ + 1]]
    /\ LET ids == { PyInt(jobs[j].rows[k].VoterID).v : k \in 1..Len(jobs[j].rows) } IN
       procs' = [procs EXCEPT ![p] =
          [Idle EXCEPT !.pc = "batch", !.rows = jobs[j].rows,
                       !.ctx = Override(jobs[j].province, jobs[j].constituency),
                       !.job = j,
                       !.existing = { r \in voters : r.voter_id \in ids }]]
    /\ UNCHANGED <<call, mapper, orm, voters, uploads, imports, started, last>>

\* The task raised: logged and re-raised; the queue re-queues the message or
\* records the failure and drops the message.
TaskRaised(job) ==
    IF ShouldRetry(job)
    THEN [job EXCEPT !.state = "queued", !.retries = @ + 1, !.raised = TRUE]
    ELSE [job EXCEPT !.state = "failed", !.raised = TRUE, !.rows = <<>>]

\* The atomic commit of process_batch: bulk insert and bulk update.  It waits
\* for transactions that have written one of its voter ids; an insert of an
\* id stored meanwhile violates the unique constraint and the whole batch is
\* rolled back and the error raised.
ChunkCommit(p) ==
    LET st == procs[p]
        plan == process_batch(st.rows, st.ctx, st.existing)
        writes == plan.updates \cup BulkCreate(plan.inserts, UsedPks)
    IN  /\ st.pc = "batch"
        /\ \A w \in writes : Holders(p, w.voter_id) = {}
        /\ IF \E x \in plan.inserts : UniqueViolation(voters, x.voter_id)
           THEN /\ voters' = Rollback(voters, writes)
                /\ jobs' = [jobs EXCEPT ![st.job] = TaskRaised(@)]
                /\ UNCHANGED last
           ELSE /\ voters' = ApplyWrites(voters, writes)
                /\ jobs' = [jobs EXCEPT ![st.job] =
                      [@ EXCEPT !.state = "done", !.imported = plan.imported,
                                !.failed = plan.failed, !.rows = <<>>]]
                /\ last' = Committed("chunk", st, 0)
        /\ procs' = [procs EXCEPT ![p] = Idle]
        /\ UNCHANGED <<call, mapper, orm, uploads, imports, started>>

\* The commit of process_batch fails in the store: nothing of the batch is
\* written and the error leaves the task.
ChunkCommitFail(p) ==
    LET st == procs[p]
        plan == process_batch(st.rows, st.ctx, st.existing)
        writes == plan.updates \cup BulkCreate(plan.inserts, UsedPks)
    IN  /\ st.pc = "batch"
        /\ voters' = Rollback(voters, writes)
        /\ jobs' = [jobs EXCEPT ![st.job] = TaskRaised(@)]
        /\ procs' = [procs EXCEPT ![p] = Idle]
        /\ UNCHANGED <<call, mapper, orm, uploads, imports, started, last>>

----------------------------------------------------------------------------
(* caste_mapper.py at run time: the SurnameMapping table as it is edited,   *)
(* the cache entry 'surname_caste_mapping' with its expiry, and in each     *)
(* process the CasteMapper singleton, which loads self.mappings when it is  *)
(* constructed.                                                             *)

\* No call of a helper on its own has been made.  i, at and log are used by
\* the calls that run through several steps.
NoCall == [i |-> 0, f |-> "none", arg |-> None, res |-> None, at |-> 0, log |-> <<>>]

\* The clock advances in half expiry windows.
TickSeconds == CACHE_TIMEOUT \div 2

NoCache == [set |-> FALSE, value |-> <<>>, expires |-> 0]

NoMapper == [mappings |-> <<>>, made |-> FALSE]

\* cache.get(CACHE_KEY): the entry unless it has expired.
CacheGet(m) ==
    IF m.cache.set /\ m.now < m.cache.expires THEN m.cache.value ELSE <<>>

\* _load_mappings in state m: the cached dict if it is non-empty, else the
\* active rows of the table, which are then cached; {} when the query fails.
LoadMappings(m, dbok) ==
    IF DOMAIN CacheGet(m) # {}
    THEN [mappings |-> CacheGet(m), cache |-> m.cache, how |-> "cache"]
    ELSE IF dbok
    THEN [mappings |-> _load_mappings(m.store),
          cache |-> [set |-> TRUE, value |-> _load_mappings(m.store),
                     expires |-> m.now + CACHE_TIMEOUT],
          how |-> "store"]
    ELSE [mappings |-> <<>>, cache |-> m.cache, how |-> "failed"]

\* SurnameMapping.objects.update_or_create(surname=..., defaults=...)
UpsertMapping(store, surname, caste_group, is_active) ==
    { r \in store : r.surname # surname }
    \cup { [surname |-> surname, caste_group |-> caste_group, is_active |-> is_active] }

\* map_surname_to_caste(surname) in process p: get_caste_mapper() constructs
\* the singleton on first use; get_caste_group reads its self.mappings.
Resolve(p, surname, dbok) ==
    LET made == mapper.inst[p].made
        ld == LoadMappings(mapper, dbok)
        held == IF made THEN mapper.inst[p].mappings ELSE ld.mappings
    IN  /\ mapper' = [mapper EXCEPT
              !.inst[p] = [made |-> TRUE, mappings |-> held],
              !.cache = IF made THEN @ ELSE ld.cache,
              !.out = [p |-> p, surname |-> surname,
                       result |-> CasteOf(held, surname),
                       how |-> IF made THEN "held" ELSE ld.how]]
        /\ UNCHANGED <<call, orm, voters, uploads, procs, jobs, imports, started, last>>

\* The record of a call of reload or add_mapping in process p that returned
\* res; the flag turns with every call.
Returned(f, p, surname, res) ==
    [NoCall EXCEPT !.f = f, !.i = p, !.arg = S(surname), !.res = res,
                   !.at = 1 - call.at]

\* The singleton of process p as get_caste_mapper() hands it out: constructed,
\* the store answering, on first use.
Constructed(p) ==
    IF mapper.inst[p].made THEN mapper
    ELSE [mapper EXCEPT !.cache = LoadMappings(mapper, TRUE).cache,
                        !.inst[p] = [made |-> TRUE,
                                     mappings |-> LoadMappings(mapper, TRUE).mappings]]

\* get_caste_mapper().reload() in process p: the cache entry is deleted and
\* self.mappings loaded again; a failed query is logged and leaves {}.
Reload(p, dbok) ==
    LET first == Constructed(p)
        ld == LoadMappings([first EXCEPT !.cache = NoCache], dbok)
    IN  /\ mapper' = [first EXCEPT !.cache = ld.cache,
                                   !.inst[p] = [made |-> TRUE, mappings |-> ld.mappings]]
        /\ call' = Returned("reload", p, <<>>, None)
        /\ UNCHANGED <<orm, voters, uploads, procs, jobs, imports, started, last>>

\* get_caste_mapper().add_mapping(surname, caste_group) in process p.  wrote:
\* update_or_create wrote the row, then the cache entry is deleted and
\* self.mappings loaded again (dbok: the query of the load is answered) and
\* True returned; otherwise the exception is logged and False returned.
AddMapping(p, surname, caste_group, wrote, dbok) ==
    LET first == Constructed(p)
        store == UpsertMapping(mapper.store, surname, caste_group, TRUE)
        ld == LoadMappings([first EXCEPT !.store = store, !.cache = NoCache], dbok)
    IN  /\ mapper.writes < MaxWrites
        /\ IF wrote
           THEN /\ mapper' = [first EXCEPT
                      !.store = store,
                      !.cache = ld.cache,
                      !.inst[p] = [made |-> TRUE, mappings |-> ld.mappings],
                      !.wrote = mapper.now, !.writer = p, !.writes = @ + 1]
                /\ call' = Returned("add_mapping", p, surname, I(1))
           ELSE /\ mapper' = first
                /\ call' = Returned("add_mapping", p, surname, I(0))
        /\ UNCHANGED <<orm, voters, uploads, procs, jobs, imports, started, last>>

\* SurnameMappingViewSet.create and update served by process p: the
\* serializer saves the row.
ViewSetSave(p, surname, caste_group, is_active) ==
    /\ mapper.writes < MaxWrites
    /\ mapper' = [mapper EXCEPT
          !.store = UpsertMapping(@, surname, caste_group, is_active),
          !.wrote = mapper.now, !.writer = p, !.writes = @ + 1]
    /\ UNCHANGED <<call, orm, voters, uploads, procs, jobs, imports, started, last>>

\* SurnameMappingViewSet.destroy served by process p.
ViewSetDestroy(p, surname) ==
    /\ mapper.writes < MaxWrites
    /\ \E r \in mapper.store : r.surname = surname
    /\ mapper' = [mapper EXCEPT
          !.store = { r \in @ : r.surname # surname },
          !.wrote = mapper.now, !.writer = p, !.writes = @ + 1]
    /\ UNCHANGED <<call, orm, voters, uploads, procs, jobs, imports, started, last>>

\* manage.py load_surname_mappings, a process of its own: every row of its
\* CSV file is written active, after the table was cleared if asked.
LoadSurnameMappings(rows, clear) ==
    LET Load[k \in 0..Len(rows)] ==
           IF k = 0 THEN (IF clear THEN {} ELSE mapper.store)
           ELSE UpsertMapping(Load[k - 1], rows[k][1], rows[k][2], TRUE)
    IN  /\ mapper.writes < MaxWrites
        /\ mapper' = [mapper EXCEPT !.store = Load[Len(rows)],
                                    !.wrote = mapper.now, !.writer = 0,
                                    !.writes = @ + 1]
        /\ UNCHANGED <<call, orm, voters, uploads, procs, jobs, imports, started, last>>

\* Time passes.
Tick ==
    /\ mapper.now < MaxTicks * TickSeconds
    /\ mapper' = [mapper EXCEPT !.now = @ + TickSeconds]
    /\ UNCHANGED <<call, orm, voters, uploads, procs, jobs, imports, started, last>>

----------------------------------------------------------------------------
(* The helpers called on their own. *)


\* extract_surname(full_name), the one call of a behaviour.
ExtractSurname(full_name) ==
    /\ call = NoCall
    /\ call' = [NoCall EXCEPT !.f = "extract_surname", !.arg = full_name,
                               !.res = S(extract_surname(full_name))]
    /\ UNCHANGED <<orm, voters, uploads, procs, jobs, imports, started, last, mapper>>

----------------------------------------------------------------------------
(* zip_processor.py: process_zip_file on an extracted archive.  The archive  *)
(* is the sequence of its files in the order os.walk yields them, each with  *)
(* the directories above it (below temp_dir), its name and its content.      *)

\* str.lower() on the letters of the extension.
Lower(s) ==
    [ k \in 1..Len(s) |->
        CASE s[k] = "C" -> "c" [] s[k] = "S" -> "s" [] s[k] = "V" -> "v" [] OTHER -> s[k] ]

\* str.endswith(suffix)
EndsWith(s, suffix) ==
    /\ Len(s) >= Len(suffix)
    /\ SubSeq(s, Len(s) - Len(suffix) + 1, Len(s)) = suffix

\* os.path.splitext(name)[0]: the name up to its last period, the periods the
\* name begins with not counting.
SplitExtRoot(name) ==
    LET dots == { k \in 1..Len(name) :
                    name[k] = "." /\ \E m \in 1..(k - 1) : name[m] # "." }
    IN  IF dots = {} THEN name
        ELSE SubSeq(name, 1, (CHOOSE k \in dots : \A m \in dots : m <= k) - 1)

\* file.lower().endswith('.csv')
IsCsv(name) == EndsWith(Lower(name), <<".","c","s","v">>)

Unknown == <<"U","n","k","n","o","w","n">>

\* The province process_zip_file takes for a file: the name of its parent
\* directory, "Unknown" for a file at the top of the archive.
ZipProvince(entry) ==
    IF Len(entry.dirs) < 1 THEN Unknown ELSE entry.dirs[Len(entry.dirs)]

ZipConstituency(entry) == SplitExtRoot(entry.name)

NoResults ==
    [success |-> TRUE, errors |-> <<>>, total_records |-> 0, unmapped_surnames |-> {},
     total_files |-> 0, processed_files |-> 0, imported_records |-> 0,
     failed_records |-> 0]

\* process_zip_file up to the walk, the archive extracted.
ZipStart(tree) ==
    /\ call = NoCall
    /\ \A p \in Processes : procs[p].pc = "idle"
    /\ call' = [NoCall EXCEPT !.f = "process_zip_file", !.arg = tree,
                               !.res = NoResults, !.i = 1, !.at = 0]
    /\ UNCHANGED <<orm, voters, uploads, procs, jobs, imports, started, last, mapper>>

\* The file the walk is at.
ZipEntry == call.arg[call.i]

\* The walk passes a file that is no CSV file.
ZipSkip ==
    /\ call.f = "process_zip_file" /\ call.at = 0 /\ call.i <= Len(call.arg)
    /\ ~IsCsv(ZipEntry.name)
    /\ call' = [call EXCEPT !.i = @ + 1]
    /\ UNCHANGED <<orm, voters, uploads, procs, jobs, imports, started, last, mapper>>

\* The walk reaches a CSV file: it is counted.
ZipTake ==
    /\ call.f = "process_zip_file" /\ call.at = 0 /\ call.i <= Len(call.arg)
    /\ IsCsv(ZipEntry.name)
    /\ started < MaxImports
    /\ call' = [call EXCEPT !.at = started + 1,
                            !.res.total_files = @ + 1]
    /\ UNCHANGED <<orm, voters, uploads, procs, jobs, imports, started, last, mapper>>

\* CSVProcessor(file_path, user) with the overrides set, and process() up to
\* its first row.
ZipProcess ==
    /\ call.f = "process_zip_file" /\ call.at = started + 1
    /\ ProcessStart(1, ZipEntry.file,
                    Override(S(ZipProvince(ZipEntry)), S(ZipConstituency(ZipEntry))))

\* A summary that adds the counts of every file, failed or not.
ZipCollectAll ==
    LET ret == procs[1].ret IN
    /\ call.f = "process_zip_file" /\ call.at = started /\ call.at > 0
    /\ procs[1].pc = "idle"
    /\ call' = [call EXCEPT
          !.i = @ + 1, !.at = 0,
          !.log = Append(@, ret),
          !.res = [(IF ret.success
                    THEN [@ EXCEPT !.processed_files = @ + 1]
                    ELSE [@ EXCEPT !.errors = Append(@, ret.error)])
                   EXCEPT !.total_records = @ + ret.total,
                          !.imported_records = @ + ret.imported,
                          !.failed_records = @ + ret.failed,
                          !.unmapped_surnames = @ \cup ret.unmapped]]
    /\ UNCHANGED <<orm, voters, uploads, procs, jobs, imports, started, last, mapper>>

\* process() has returned its result: it is added to the summary.
ZipCollect ==
    LET ret == procs[1].ret IN
    /\ call.f = "process_zip_file" /\ call.at = started /\ call.at > 0
    /\ procs[1].pc = "idle"
    /\ call' = [call EXCEPT
          !.i = @ + 1, !.at = 0,
          !.log = Append(@, ret),
          !.res = IF ret.success
                  THEN [@ EXCEPT !.processed_files = @ + 1,
                                 !.total_records = @ + ret.total,
                                 !.imported_records = @ + ret.imported,
                                 !.failed_records = @ + ret.failed,
                                 !.unmapped_surnames = @ \cup ret.unmapped]
                  ELSE [@ EXCEPT !.errors = Append(@, ret.error)]]
    /\ UNCHANGED <<orm, voters, uploads, procs, jobs, imports, started, last, mapper>>

\* process() raised before its own try block (the INSERT of the
\* UploadHistory row failed): the error is noted and the walk goes on.
ZipFileRaised ==
    /\ call.f = "process_zip_file" /\ call.at = started + 1
    /\ validate_csv(ZipEntry.file).ok
    /\ started' = started + 1
    /\ call' = [call EXCEPT
          !.i = @ + 1, !.at = 0,
          !.log = Append(@, [NoRet EXCEPT !.kind = "raised", !.error = "database error"]),
          !.res.errors = Append(@, "database error")]
    /\ UNCHANGED <<orm, voters, uploads, procs, jobs, imports, last, mapper>>

----------------------------------------------------------------------------
(* Inputs. *)

Thapa == <<"r","a","m"," ","t","h","a","p","a">>

Bohara == <<" ","s","i","t","a"," "," ","b","o","h","a","r","a",",">>

Rai == <<"g","i","t","a"," ","r","a","i">>

Magar == <<"h","a","r","i"," ","m","a","g","a","r">>

Row(voter_id, age, name, gender, district) ==
    [Name |-> S(name), Age |-> age, Gender |-> S(gender),
     Spouse |-> NaN, Parent |-> NaN, Province |-> S(<<"p">>), VoterID |-> voter_id,
     Ward |-> I(3), District |-> district, Municipality |-> S(<<"m">>), Center |-> S(<<"c">>)]

\* Two rows of voter 1 in different age brackets, and rows of voter 2: one
\* under age, one without a voter id, one without a district, one with a
\* non-numeric age.
RowA == Row(I(1), I(25), Thapa, <<"p","u","r","u","s","h">>, S(<<"d">>))

RowB == Row(I(1), I(50), Bohara, <<" ","m","a","h","i","l","a">>, S(<<"d">>))

RowC == Row(I(2), I(17), Rai, <<"x">>, S(<<"d">>))

RowD == Row(NaN, I(30), Magar, <<"m","a","l","e">>, S(<<"d">>))

RowE == Row(I(2), I(61), Rai, <<"o","t","h","e","r">>, NaN)

RowF == Row(I(2), S(<<"a","b","c">>), Thapa, <<"m","a","l","e">>, S(<<"d">>))

RowG == Row(I(2), I(61), Rai, <<"o","t","h","e","r">>, S(<<"d">>))

\* Rows of voter 3: the placeholder dash in both relation columns, and a
\* name in both.
RowH == [Row(I(3), I(40), Magar, <<"m","a","l","e">>, S(<<"d">>))
           EXCEPT !.Spouse = S(<<"-">>), !.Parent = S(<<"-">>)]

RowJ == [Row(I(3), I(40), Magar, <<"m","a","l","e">>, S(<<"d">>))
           EXCEPT !.Spouse = S(<<"s">>), !.Parent = S(<<"r">>)]

RowSet == {RowA, RowB, RowC, RowD, RowE, RowF, RowG, RowH, RowJ}

File(rows) == [rows |-> rows, cols |-> REQUIRED_COLUMNS]

\* The empty file, every file of one row, files of two rows (the same voter
\* twice, two voters, a row that cannot be used before or after one that
\* can), and a file without the Gender column.
SeqFiles ==
    { File(<<>>) }
    \cup { File(<<r>>) : r \in RowSet }
    \cup { File(<<RowA, r>>) : r \in {RowB, RowC, RowF, RowG} }
    \cup { File(<<r, RowA>>) : r \in {RowD, RowF} }
    \cup { [rows |-> <<RowA>>, cols |-> REQUIRED_COLUMNS \ {"Gender"}] }

\* The files the orchestrator is given.
QueueFiles ==
    { File(<<>>) }
    \cup { File(<<r>>) : r \in {RowA, RowB, RowC, RowF} }
    \cup { File(<<RowA, r>>) : r \in {RowB, RowF, RowG} }

\* Files imported concurrently: they share voter ids, in both orders.
ConcFiles == { File(<<RowA, RowG>>), File(<<RowG, RowB>>), File(<<RowB>>) }

\* process() as the view calls it, and as the command calls it for one file
\* of a province folder.
SeqInputs ==
    { <<f, NoOverride>> : f \in SeqFiles }
    \cup { <<File(<<RowA>>), Override(S(<<"P">>), S(<<"K">>))>> }

----------------------------------------------------------------------------
(* Specifications. *)

Init ==
    /\ orm \in {"all_fields", "update_fields"}
    /\ voters = {}
    /\ uploads = <<>>
    /\ procs = [p \in Processes |-> Idle]
    /\ jobs = <<>>
    /\ imports = <<>>
    /\ started = 0
    /\ last = [kind |-> "none", rows |-> <<>>, ctx |-> NoOverride, failed |-> 0, runs |-> 0]
    /\ mapper = [store |-> SurnameMappingRows, cache |-> NoCache,
                 inst |-> [p \in Processes |-> NoMapper], now |-> 0,
                 wrote |-> 0, writer |-> 0, writes |-> 0,
                 out |-> [p |-> 0, surname |-> <<>>, result |-> "unknown", how |-> "none"]]
    /\ call = NoCall

\* Two processes: web requests or commands running process(), and queue
\* workers running chunk tasks, in any interleaving.
Next ==
    \/ \E p \in Processes, f \in ConcFiles : ProcessStart(p, f, NoOverride)
    \/ \E p \in Processes : ProcessRow(p)
    \/ \E p \in Processes : ProcessCreate(p)
    \/ \E p \in Processes : ProcessCommit(p)
    \/ \E p \in Processes : ProcessCommitFail(p)
    \/ \E p \in Processes : DbDeadlock(p)
    \/ \E f \in ConcFiles : ImportVotersCsv(f, S(<<"P">>), S(<<"K">>))
    \/ \E p \in Processes, j \in 1..Len(jobs) : ChunkTake(p, j)
    \/ \E p \in Processes : ChunkCommit(p)
    \/ \E p \in Processes : ChunkCommitFail(p)

Spec == Init /\ [][Next]_vars

\* One process: imports one after the other.
NextSeq ==
    \/ \E x \in SeqInputs : ProcessStart(1, x[1], x[2])
    \/ ProcessRow(1)
    \/ ProcessCreate(1)
    \/ ProcessCommit(1)
    \/ ProcessCommitFail(1)
    \/ \E f \in QueueFiles : ImportVotersCsv(f, S(<<"P">>), S(<<"K">>))
    \/ \E j \in 1..Len(jobs) : ChunkTake(1, j)
    \/ ChunkCommit(1)
    \/ ChunkCommitFail(1)

SpecSeq == Init /\ [][NextSeq]_vars

\* Files seen by the orchestrator only: n rows, each standing for itself.
ChunkSizes == {0, 1, 999, 1000, 1001, 1999, 2000, 2001, 3000, 5000, 10000, 10500}

NumberedFile(n) == [rows |-> [k \in 1..n |-> k], cols |-> REQUIRED_COLUMNS]

\* The orchestrator alone: calls of import_voters_csv on files of many rows.
NextChunk ==
    \E n \in ChunkSizes : ImportVotersCsv(NumberedFile(n), S(<<"P">>), S(<<"K">>))

SpecChunk == Init /\ [][NextChunk]_vars

\* Surnames looked up and edited: one mapped and active, one mapped and
\* inactive, and the empty surname.
Surnames ==
    { <<"t","h","a","p","a">>, <<"m","a","g","a","r">>, <<>> }

\* The CSV file of load_surname_mappings after its CASTE_NAME_MAPPING.
MappingFile == << << <<"t","h","a","p","a">>, "dalit" >> >>

\* The resolver in two processes while the table is edited and time passes.
NextMapper ==
    \/ \E p \in Processes, sn \in Surnames, dbok \in BOOLEAN : Resolve(p, sn, dbok)
    \/ \E p \in Processes : AddMapping(p, <<"m","a","g","a","r">>, "janajati", TRUE, TRUE)
    \/ \E p \in Processes :
          \/ ViewSetSave(p, <<"t","h","a","p","a">>, "dalit", TRUE)
          \/ ViewSetSave(p, <<"t","h","a","p","a">>, "chhetri", FALSE)
    \/ \E p \in Processes : ViewSetDestroy(p, <<"t","h","a","p","a">>)
    \/ \E clear \in BOOLEAN : LoadSurnameMappings(MappingFile, clear)
    \/ Tick

SpecMapper == Init /\ [][NextMapper]_vars

\* The resolver reloaded and extended by hand in two processes, the store
\* answering or not, between edits of the table and lookups.
NextReload ==
    \/ \E p \in Processes, sn \in Surnames, dbok \in BOOLEAN : Resolve(p, sn, dbok)
    \/ \E p \in Processes, sn \in Surnames, wrote \in BOOLEAN, dbok \in BOOLEAN :
          AddMapping(p, sn, "janajati", wrote, dbok)
    \/ \E p \in Processes, dbok \in BOOLEAN : Reload(p, dbok)
    \/ \E p \in Processes : ViewSetSave(p, <<"t","h","a","p","a">>, "dalit", TRUE)
    \/ \E p \in Processes : ViewSetDestroy(p, <<"t","h","a","p","a">>)

SpecReload == Init /\ [][NextReload]_vars

\* Files of rows whose surname has a mapping (thapa) or has none (rai).
ResolveFiles == { File(<<RowG>>), File(<<RowA>>), File(<<RowA, RowG>>) }

\* Lookups in two processes, the store answering or not when a mapper is
\* constructed, next to imports by process(); the importing process holds the
\* mapping of the table as it stands.
NextResolve ==
    \/ \E p \in Processes, sn \in Surnames \cup {<<"r","a","i">>}, dbok \in BOOLEAN :
          Resolve(p, sn, dbok)
    \/ \E f \in ResolveFiles : ProcessStart(1, f, NoOverride)
    \/ ProcessRow(1)
    \/ ProcessCreate(1)
    \/ ProcessCommit(1)

SpecResolve == Init /\ [][NextResolve]_vars

\* A file of more rows than one batch holds, each voter id in one row: row k
\* is voter k.  The first row, the last row of the first batch and the rows
\* of the second batch can be stored; the rows between have no age.
BigRow(k) ==
    IF k \in {1, BATCH_SIZE, BATCH_SIZE + 1, BATCH_SIZE + 2}
    THEN Row(I(k), I(18 + (k % 50)),
             CASE k % 3 = 0 -> Thapa [] k % 3 = 1 -> Rai [] OTHER -> Bohara,
             IF k % 2 = 0 THEN <<"p","u","r","u","s","h">> ELSE <<"x">>,
             S(<<"d">>))
    ELSE Row(I(k), NaN, Magar, <<"x">>, S(<<"d">>))

BigFile == File([k \in 1..(BATCH_SIZE + 2) |-> BigRow(k)])

\* Its first row and a row of its second batch as a file of their own.
SmallFile == File(<<BigRow(1), BigRow(BATCH_SIZE + 1)>>)

\* The chunk tasks of files whose voter ids are distinct, taken and committed
\* by two workers in any order; the big file is imported once.
NextOrder ==
    \/ /\ \A m \in 1..Len(imports) : imports[m].rows <= BATCH_SIZE
       /\ ImportVotersCsv(BigFile, S(<<"P">>), S(<<"K">>))
    \/ ImportVotersCsv(SmallFile, S(<<"P">>), S(<<"K">>))
    \/ \E p \in Processes, j \in 1..Len(jobs) : ChunkTake(p, j)
    \/ \E p \in Processes : ChunkCommit(p)
    \/ \E p \in Processes : ChunkCommitFail(p)

SpecOrder == Init /\ [][NextOrder]_vars

\* Names: every text of up to MaxNameLen characters over a letter, the
\* blank, the period and the four punctuation marks, the name of the
\* docstring (anita k.c., shortened to a k.c.), and cells that are not text.
NameChars == {"a", " ", ".", ",", ";", ":", "!"}

Texts(n) == UNION { [1..k -> NameChars] : k \in 0..n }

Names ==
    { S(t) : t \in Texts(MaxNameLen) }
    \cup { S(<<"a"," ","k",".","c",".">>), NaN, None, I(7) }

NextSurname == \E full_name \in Names : ExtractSurname(full_name)

SpecSurname == Init /\ [][NextSurname]_vars

\* Files of an archive: a.csv under KProvince, b.CSV under W/B, r.csv at the
\* top, the text file n.txt, the empty e.csv, and x.y.csv with a row that
\* cannot be converted.
ZipA == [name |-> <<"a",".","c","s","v">>,
         file |-> File(<<RowA>>), dirs |-> << <<"K","P","r","o","v","i","n","c","e">> >>]

ZipB == [name |-> <<"b",".","C","S","V">>,
         file |-> File(<<RowG>>), dirs |-> << <<"W">>, <<"B">> >>]

ZipR == [name |-> <<"r",".","c","s","v">>, file |-> File(<<RowA>>), dirs |-> <<>>]

ZipN == [name |-> <<"n",".","t","x","t">>, file |-> File(<<>>), dirs |-> << <<"B">> >>]

ZipE == [name |-> <<"e",".","c","s","v">>, file |-> File(<<>>), dirs |-> << <<"B">> >>]

ZipX == [name |-> <<"x",".","y",".","c","s","v">>, file |-> File(<<RowD, RowA>>),
         dirs |-> << <<"B">> >>]

ZipEntries == {ZipA, ZipB, ZipR, ZipN, ZipE, ZipX}

\* Archives of one or two files, and of two CSV files around the text file.
Trees ==
    { <<e>> : e \in ZipEntries }
    \cup { <<x[1], x[2]>> : x \in { y \in ZipEntries \X ZipEntries : y[1] # y[2] } }
    \cup { <<e, ZipN, f>> : e \in {ZipA, ZipE}, f \in {ZipB, ZipX} }

\* process_zip_file as the upload_zip view calls it, one archive per
\* behaviour.
NextZip ==
    \/ \E tree \in Trees : ZipStart(tree)
    \/ ZipSkip
    \/ ZipTake
    \/ ZipProcess
    \/ ZipFileRaised
    \/ ProcessRow(1)
    \/ ProcessCreate(1)
    \/ ProcessCommit(1)
    \/ ProcessCommitFail(1)
    \/ ZipCollect

SpecZip == Init /\ [][NextZip]_vars

----------------------------------------------------------------------------
(* Properties. *)

\* The voter ids of a batch's rows.
IdsOf(rows) == { PyInt(rows[k].VoterID).v : k \in 1..Len(rows) }

\* Process p is about to commit the batch that was committed last, every row
\* of it valid and imported by that run.
SameBatchAgain(p) ==
    /\ procs[p].pc \in {"commit", "batch"}
    /\ last.kind # "none" /\ last.failed = 0
    /\ last.rows = procs[p].rows /\ last.ctx = procs[p].ctx
    /\ procs[p].rows # <<>>
    /\ \A k \in 1..Len(procs[p].rows) : RowValid(procs[p].rows[k])

\* The step ends p's run with success.
Succeeds(p) ==
    /\ procs'[p].pc = "idle"
    /\ procs[p].pc = "commit" => procs'[p].ret.success
    /\ procs[p].pc = "batch" => jobs'[procs[p].job].state = "done"

\* C1: a successful second run of the identical batch of valid rows, through
\* process() or through a chunk task, leaves the Voter table exactly as the
\* first run left it, with exactly one record per voter id of the batch.
C1_Idempotent ==
    [][ \A p \in Processes :
          SameBatchAgain(p) /\ Succeeds(p) =>
             /\ voters' = voters
             /\ \A v \in IdsOf(procs[p].rows) :
                   Cardinality({ r \in voters' : r.voter_id = v }) = 1 ]_vars

\* A batch was committed twice in a row and its records are stored.
C1_Witness ==
    /\ last.runs = 2 /\ last.failed = 0
    /\ \A k \in 1..Len(last.rows) : RowValid(last.rows[k])
    /\ \A v \in IdsOf(last.rows) : \E r \in voters : r.voter_id = v
    /\ voters # {}

\* C2: the Voter table never holds two records of one voter_id, and a step
\* never removes or re-keys a stored record: a voter_id that is stored keeps
\* its record (its primary key) in every later state.
C2_OneRecordPerVoterId ==
    [][ /\ \A r1, r2 \in voters' : r1.voter_id = r2.voter_id => r1 = r2
        /\ \A r \in voters : \E r2 \in voters' :
               r2.voter_id = r.voter_id /\ r2.pk = r.pk ]_vars

\* Two transactions write the same voter_id at the same time: one has written
\* it and not committed, the other waits for it.
C2_Witness ==
    \E p \in Processes, q \in Processes :
       /\ p # q
       /\ \E w \in procs[p].writes : w.voter_id \in Waiting(q)

\* Row k of rows is the only row of the batch with its voter id.
OnceIn(rows, k) ==
    \A m \in 1..Len(rows) : rows[m].VoterID = rows[k].VoterID => m = k

\* The record r carries the fields derived from row: the surname of the
\* stripped name, the caste of the normalised surname, the translated gender
\* and the bracket of the age; for the row of " sita  bohara," these are
\* bohara, chhetri, female and mature.
DerivedFrom(r, row) ==
    LET surname == extract_surname(S(Strip(PyStr(row.Name)))) IN
    /\ r.surname = surname
    /\ r.caste_group = map_surname_to_caste(normalize_surname(surname))
    /\ r.gender = GenderOf(Strip(PyStr(row.Gender)))
    /\ r.age = PyInt(row.Age).v
    /\ r.age_group = AgeGroupOf(r.age)
    /\ row = RowB =>
          /\ r.surname = <<"b","o","h","a","r","a">>
          /\ r.caste_group = "chhetri"
          /\ r.gender = "female"
          /\ r.age_group = "mature"
    /\ row = RowA =>
          /\ r.surname = <<"t","h","a","p","a">>
          /\ r.caste_group = "chhetri"
          /\ r.gender = "male"
          /\ r.age_group = "gen_z"

\* The step commits p's batch, and every valid row of it that satisfies
\* Unique and whose voter id was not stored has its record, fields derived.
NewRowsStored(p, Unique(_, _)) ==
    LET rows == procs[p].rows IN
    (procs[p].pc \in {"commit", "batch"} /\ Succeeds(p)) =>
       \A k \in 1..Len(rows) :
          ( /\ RowValid(rows[k])
            /\ Unique(rows, k)
            /\ \A r \in voters : r.voter_id # PyInt(rows[k].VoterID).v ) =>
          \E r \in voters' :
             r.voter_id = PyInt(rows[k].VoterID).v /\ DerivedFrom(r, rows[k])

AnyRow(rows, k) == TRUE

\* C3 (as amended): for every valid row whose voter id is not stored and
\* occurs in no other row of the batch, the committed batch leaves a record
\* of that voter id whose surname, caste_group, gender and age_group are the
\* ones derived from the row.
C3_DerivedFields ==
    [][ \A p \in Processes : NewRowsStored(p, OnceIn) ]_vars

\* C3 (as claimed): the same for every valid row whose voter id is not
\* stored, also when another row of the batch has the same voter id.
C3_DerivedFieldsAnyRow ==
    [][ \A p \in Processes : NewRowsStored(p, AnyRow) ]_vars

\* The first import was the single row of " sita  bohara," and its record is
\* stored with the derived fields.
C3_Witness ==
    /\ started = 1 /\ last.runs = 1 /\ last.rows = <<RowB>>
    /\ \E r \in voters : r.voter_id = 1 /\ DerivedFrom(r, RowB)

\* C4: every stored record's age_group is the bracket of its age.
C4_AgeGroupOfAge ==
    \A r \in voters : r.age_group = AgeGroupOf(r.age)

\* The rows of a batch that are valid, and those that are not.
ValidRows(rows) == { k \in 1..Len(rows) : RowValid(rows[k]) }

BadRows(rows) == (1..Len(rows)) \ ValidRows(rows)

\* The records of the voter ids in ids.
RecordsOf(table, ids) == { r \in table : r.voter_id \in ids }

\* C5: a row whose age is not an integer in [18,150], whose voter id is not
\* an integer or that lacks a required text field is counted as a failure and
\* writes nothing: in the loop of process() the step of such a row adds one
\* to the failures and leaves the transaction's writes as they are; a chunk
\* task counts each such row as failed and leaves the records of their voter
\* ids alone.
C5_BadRowRejected ==
    [][ \A p \in Processes :
          /\ ( /\ procs[p].pc = "row" /\ procs'[p] # procs[p]
               /\ procs[p].i \in BadRows(procs[p].rows) ) =>
                  /\ procs'[p].failed = procs[p].failed + 1
                  /\ procs'[p].writes = procs[p].writes
                  /\ procs'[p].pc # "create"
          /\ ( procs[p].pc = "batch" /\ Succeeds(p) ) =>
                  LET rows == procs[p].rows
                      ids == { PyInt(rows[k].VoterID).v : k \in BadRows(rows) }
                             \ { PyInt(rows[k].VoterID).v : k \in ValidRows(rows) }
                  IN  /\ jobs'[procs[p].job].failed = Cardinality(BadRows(rows))
                      /\ RecordsOf(voters', ids) = RecordsOf(voters, ids) ]_vars

\* File-level and store-level outcomes of process(), which are not row
\* errors.
NotRowErrors == { "CSV file is empty", "Missing required columns", "database error" }

\* C6: process() on a file of n valid and k malformed rows returns
\* imported = n and failed = k with one error text per malformed row and has
\* stored a record for every valid row; a chunk task of such a batch reports
\* the same counts and stores the same records.
C6_BadRowsCountedOnly ==
    [][ \A p \in Processes :
          /\ ( /\ procs'[p].pc = "idle" /\ procs'[p] # procs[p]
               /\ procs[p].pc \in {"idle", "commit"}
               /\ procs'[p].ret.error \notin NotRowErrors ) =>
                  LET rows == IF procs[p].pc = "idle" THEN procs'[p].rows
                              ELSE procs[p].rows
                      ret == procs'[p].ret
                  IN  /\ ret.imported = Cardinality(ValidRows(rows))
                      /\ ret.failed = Cardinality(BadRows(rows))
                      /\ Len(ret.errors) = Cardinality(BadRows(rows))
                      /\ \A k \in ValidRows(rows) :
                            \E r \in voters' : r.voter_id = PyInt(rows[k].VoterID).v
          /\ ( procs[p].pc = "batch" /\ Succeeds(p) ) =>
                  LET rows == procs[p].rows
                      job == jobs'[procs[p].job]
                  IN  /\ job.imported = Cardinality(ValidRows(rows))
                      /\ job.failed = Cardinality(BadRows(rows))
                      /\ \A k \in ValidRows(rows) :
                            \E r \in voters' : r.voter_id = PyInt(rows[k].VoterID).v ]_vars

\* The jobs dispatched by import m, in dispatch order.
JobsOf(m) == { j \in 1..Len(jobs) : jobs[j].imp = m }

\* ceil(n / 1000)
CeilThousands(n) ==
    CHOOSE c \in 0..(n \div 1000 + 1) : c * 1000 >= n /\ (c - 1) * 1000 < n

\* C7: import_voters_csv on a file of N rows sends ceil(N / 1000) chunk tasks
\* to the queue and returns that number as "chunks"; for N = 10,500 these are
\* 11 tasks, the first ten of 1,000 rows and the last of 500.
C7_ChunkCount ==
    \A m \in 1..Len(imports) :
       LET imp == imports[m] IN
       /\ imp.chunks = CeilThousands(imp.rows)
       /\ Cardinality(JobsOf(m)) = imp.chunks
       /\ JobsOf(m) = imp.first..(imp.first + imp.chunks - 1)
       /\ \A j \in JobsOf(m) : jobs[j].state = "queued"
       /\ imp.rows = 10500 =>
             /\ Cardinality(JobsOf(m)) = 11
             /\ \A j \in imp.first..(imp.first + 9) : Len(jobs[j].rows) = 1000
             /\ Len(jobs[imp.first + 10].rows) = 500

\* A file of 10,500 rows was dispatched.
C7_Witness ==
    \E m \in 1..Len(imports) :
       imports[m].rows = 10500 /\ imports[m].chunks = 11 /\ Cardinality(JobsOf(m)) = 11

Ends(p) == procs[p].pc \in {"commit", "batch"} /\ procs'[p].pc = "idle"

C10_RowsAccounted ==
    \A m \in 1..Len(imports) :
       ( /\ imports[m].rows > 0
         /\ \A j \in JobsOf(m) : jobs[j].state \in {"done", "failed"} ) =>
       \E u \in 1..Len(uploads) :
          /\ uploads[u].op = imports[m].op
          /\ uploads[u].total_records = imports[m].rows
          /\ uploads[u].success_count + uploads[u].error_count = uploads[u].total_records

\* C11: the status of an UploadHistory record only moves forward, pending,
\* processing, then completed or failed; no operation deletes a record or moves
\* a completed or failed record to another status, and once a record is
\* completed or failed its total_records, success_count and error_count never
\* change.
StatusRank(status) ==
    CASE status = "pending" -> 0
      [] status = "processing" -> 1
      [] OTHER -> 2

C11_StatusForward ==
    [][ /\ Len(uploads') >= Len(uploads)
        /\ \A u \in 1..Len(uploads) :
              /\ StatusRank(uploads'[u].status) >= StatusRank(uploads[u].status)
              /\ uploads[u].status \in {"completed", "failed"} =>
                    /\ uploads'[u].status = uploads[u].status
                    /\ uploads'[u].total_records = uploads[u].total_records
                    /\ uploads'[u].success_count = uploads[u].success_count
                    /\ uploads'[u].error_count = uploads[u].error_count ]_vars

\* A record is completed, and a later import has run to its failed record.
C11_Witness ==
    /\ Len(uploads) = 2
    /\ uploads[1].status = "completed"
    /\ uploads[1].success_count > 0
    /\ uploads[2].status = "failed"

\* The sum of a count over a set of chunk tasks.
RECURSIVE SumJobs(_, _)
SumJobs(js, field) ==
    IF js = {} THEN 0
    ELSE LET j == CHOOSE x \in js : TRUE
         IN  jobs[j][field] + SumJobs(js \ {j}, field)

\* The chunk tasks of import m that returned their counts.
Reported(m) == { j \in JobsOf(m) : jobs[j].state = "done" }

\* C12: the counts of the chunk workers of one file accumulate in its
\* UploadHistory record: once every chunk task of an import has ended, the
\* record's success_count and error_count are the sums of the imported and
\* failed counts the chunk tasks returned.
C12_CountsAreSums ==
    \A m \in 1..Len(imports) :
       ( /\ Reported(m) # {}
         /\ \A j \in JobsOf(m) : jobs[j].state \in {"done", "failed"} ) =>
       \E u \in 1..Len(uploads) :
          /\ uploads[u].op = imports[m].op
          /\ uploads[u].success_count = SumJobs(Reported(m), "imported")
          /\ uploads[u].error_count = SumJobs(Reported(m), "failed")

\* C13: every file import, by process() or by import_voters_csv, creates its
\* UploadHistory record when it starts (the record that fair scheduling then
\* takes to completed or failed): every import that has started has a record.
C13_RecordAtStart ==
    \A op \in 1..started : \E u \in 1..Len(uploads) : uploads[u].op = op

\* The rows of a sequence of chunk tasks, in order.
RECURSIVE RowsOfJobs(_)
RowsOfJobs(js) ==
    IF js = <<>> THEN <<>> ELSE Head(js).rows \o RowsOfJobs(Tail(js))

\* Rows that fail the file-level validation as an empty file or by a
\* non-numeric Age or VoterID column.
SchemaInvalid(rows) ==
    validate_csv(File(rows)).error \in
       { "CSV file is empty", "Age column must contain numeric values",
         "VoterID column must contain numeric values" }

\* C14: a file that fails the file-level validation is rejected as a whole.
\* When import_voters_csv is called on it no chunk task is dispatched, when
\* process() is called on it the call returns the error at once, and in both
\* cases no Voter row is created or changed.
C14_InvalidFileRejected ==
    [][ /\ Len(imports') > Len(imports) =>
              LET sent == SubSeq(jobs', Len(jobs) + 1, Len(jobs')) IN
              ( SchemaInvalid(RowsOfJobs(sent)) \/ imports'[Len(imports')].rows = 0 ) =>
                 /\ sent = <<>>
                 /\ voters' = voters
        /\ \A p \in Processes :
              ( /\ started' = started + 1
                /\ procs'[p] # procs[p]
                /\ SchemaInvalid(procs'[p].rows) ) =>
                 /\ procs'[p].pc = "idle"
                 /\ procs'[p].ret.error # ""
                 /\ voters' = voters /\ uploads' = uploads /\ jobs' = jobs ]_vars

\* C15: a caste-resolution miss is never an error.  Every lookup returns one
\* of the eight categories, and unknown for the empty surname, for a surname
\* without an active mapping and when loading from the store failed; and
\* when process() commits, every row whose surname has no mapping is stored
\* with caste_group unknown and its surname is in the run's unmapped
\* surnames.
C15_MissIsUnknown ==
    [][ /\ LET out == mapper'.out IN
           /\ out.result \in CASTE_CHOICES
           /\ out.surname = <<>> => out.result = "unknown"
           /\ out.surname \notin DOMAIN _load_mappings(mapper'.store) =>
                 out.result = "unknown"
           /\ out.how = "failed" => out.result = "unknown"
        /\ \A p \in Processes :
              LET rows == procs[p].rows IN
              (procs[p].pc = "commit" /\ procs'[p].pc = "idle" /\ procs'[p].ret.success) =>
                 \A k \in 1..Len(rows) :
                    LET surname == extract_surname(S(Strip(PyStr(rows[k].Name)))) IN
                    ( /\ _process_row(rows[k], procs[p].ctx).ok
                      /\ OnceIn(rows, k)
                      /\ normalize_surname(surname) \notin DOMAIN mappings ) =>
                       /\ \E r \in voters' :
                             /\ r.voter_id = PyInt(rows[k].VoterID).v
                             /\ r.surname = surname
                             /\ r.caste_group = "unknown"
                       /\ surname \in procs'[p].ret.unmapped
                       /\ surname \in uploads'[procs[p].upload].unmapped_surnames
      ]_vars

\* A lookup of rai, which has no mapping, returned unknown from a mapper
\* whose load failed, and process() has stored the voter rai as unknown.
C15_Witness ==
    /\ mapper.out.surname = <<"r","a","i">> /\ mapper.out.how = "failed"
    /\ mapper.out.result = "unknown"
    /\ \E r \in voters : r.surname = <<"r","a","i">> /\ r.caste_group = "unknown"
    /\ \E u \in 1..Len(uploads) :
          uploads[u].status = "completed" /\ <<"r","a","i">> \in uploads[u].unmapped_surnames

\* The surnames of the table whose every row is inactive.
InactiveOnly(store) ==
    { r.surname : r \in store } \ { r.surname : r \in { x \in store : x.is_active } }

\* C16: lookups ignore inactive mappings.  Whenever a mapper loads its table
\* from the store, a surname whose only row has is_active false is not in the
\* table loaded (and cached), and a lookup of it by that mapper returns
\* unknown.
C16_InactiveIgnored ==
    [][ /\ ( /\ mapper'.out # mapper.out
             /\ mapper'.out.how = "store"
             /\ mapper'.out.surname \in InactiveOnly(mapper'.store) ) =>
               mapper'.out.result = "unknown"
        /\ ( mapper'.cache # mapper.cache /\ mapper'.cache.set ) =>
               \A sn \in InactiveOnly(mapper'.store) :
                  sn \notin DOMAIN mapper'.cache.value
        /\ \A p \in Processes :
              ( mapper'.inst[p] # mapper.inst[p] /\ mapper'.cache # mapper.cache ) =>
                 \A sn \in InactiveOnly(mapper'.store) :
                    CasteOf(mapper'.inst[p].mappings, sn) = "unknown"
      ]_vars

\* magar, whose only row is inactive, was looked up by a mapper that loaded
\* from the store, and the answer was unknown.
C16_Witness ==
    /\ mapper.out.surname = <<"m","a","g","a","r">>
    /\ mapper.out.how = "store"
    /\ mapper.out.result = "unknown"
    /\ <<"m","a","g","a","r">> \in InactiveOnly(mapper.store)

\* The step is a lookup that was answered.
Resolved ==
    /\ mapper' # mapper
    /\ mapper'.store = mapper.store /\ mapper'.now = mapper.now
    /\ mapper'.out.how # "failed"

\* The category the table stores for a surname: that of its active row.
Stored(store, surname) == CasteOf(_load_mappings(store), surname)

\* C17: the cache is invalidated whenever a mapping changes.  After a write
\* through add_mapping or the SurnameMappingViewSet in a process, a lookup in
\* that process returns the category the table stores now.
C17_FreshAfterWrite ==
    [][ ( /\ Resolved
          /\ mapper.writes > 0
          /\ mapper.writer = mapper'.out.p ) =>
             mapper'.out.result = Stored(mapper.store, mapper'.out.surname) ]_vars

\* C18: staleness is bounded by the expiry window.  Every lookup, in any
\* process, made more than CACHE_TIMEOUT after the last change of the table
\* returns the category the table stores.
C18_FreshAfterExpiry ==
    [][ ( /\ Resolved
          /\ mapper.writes > 0
          /\ mapper.now > mapper.wrote + CACHE_TIMEOUT ) =>
             mapper'.out.result = Stored(mapper.store, mapper'.out.surname) ]_vars

\* A Voter row without its surrogate key.
NoPk(r) == [ f \in DOMAIN r \ {"pk"} |-> r[f] ]

\* The Voter row of a row of the big file imported for province P,
\* constituency K.
VoterOfRow(row) ==
    NoPk(CreateVoter(0, PyInt(row.VoterID).v,
                     _process_row(row, Override(S(<<"P">>), S(<<"K">>))).defaults))

\* The rows of import m.
FileOf(m) == IF imports[m].rows > BATCH_SIZE THEN BigFile.rows ELSE SmallFile.rows

\* The batch that chunk task j was sent.
BatchOf(j) ==
    Batches(FileOf(jobs[j].imp), BATCH_SIZE)[j - imports[jobs[j].imp].first + 1]

\* C19: chunk processing is order-independent when each voter id occurs in
\* one row of the file.  In whatever order and interleaving the chunk tasks
\* are taken and committed, the Voter table holds at most one record per
\* voter id, each the record derived from that voter's row (surrogate keys
\* apart); once all chunk tasks of an import are done every row of the file
\* that can be stored has its record, each task has returned the number of
\* its rows that can be stored as imported and the number of the others as
\* failed, and the ledger is the same: the chunk tasks leave it as it was.
C19_OrderIndependent ==
    /\ \A r \in voters : NoPk(r) = VoterOfRow(BigFile.rows[r.voter_id])
    /\ \A r1, r2 \in voters : r1.voter_id = r2.voter_id => r1 = r2
    /\ \A m \in 1..Len(imports) :
          (\A j \in JobsOf(m) : jobs[j].state = "done") =>
             /\ \A k \in 1..Len(FileOf(m)) :
                   RowValid(FileOf(m)[k]) =>
                      \E r \in voters : r.voter_id = PyInt(FileOf(m)[k].VoterID).v
             /\ \A j \in JobsOf(m) :
                   LET good == { k \in 1..Len(BatchOf(j)) : RowValid(BatchOf(j)[k]) } IN
                   /\ jobs[j].imported = Cardinality(good)
                   /\ jobs[j].failed = jobs[j].n - Cardinality(good)
    /\ uploads = <<>>

\* The two chunk tasks of the big file are done, the first committed after
\* the second: all four voters are stored, voter 1 under a later key.
C19_Witness ==
    /\ \E m \in 1..Len(imports) :
          /\ imports[m].chunks = 2
          /\ \A j \in JobsOf(m) : jobs[j].state = "done"
          /\ \E j \in JobsOf(m) : jobs[j].failed = BATCH_SIZE - 2
    /\ Cardinality(voters) = 4
    /\ \E r \in voters : r.voter_id = 1 /\ r.pk > 2

\* The fixed table of the gender tokens, anything else being other.
GenderByTable(token) ==
    CASE token \in { <<"p","u","r","u","s","h">>, <<"m","a","l","e">> } -> "male"
      [] token \in { <<"m","a","h","i","l","a">>, <<"f","e","m","a","l","e">> } -> "female"
      [] OTHER -> "other"

\* Row k is the last row of rows with its voter id.
LastIn(rows, k) ==
    \A m \in 1..Len(rows) : rows[m].VoterID = rows[k].VoterID => m <= k

\* The rows of p's batch that its run stores: those process() can convert,
\* those a chunk task finds valid.
StoredRows(p) ==
    { k \in 1..Len(procs[p].rows) :
        IF procs[p].pc = "commit"
        THEN _process_row(procs[p].rows[k], procs[p].ctx).ok
        ELSE RowValid(procs[p].rows[k]) }

\* A row is converted, and found valid, whether or not its gender token is
\* one of the table.
GenderDecidesNothing ==
    \A row \in RowSet :
       LET odd == [row EXCEPT !.Gender = S(<<"x">>)] IN
       /\ _process_row(odd, NoOverride).ok = _process_row(row, NoOverride).ok
       /\ RowValid(odd) = RowValid(row)

\* C20: an unrecognized gender token never rejects a row.  Whether a row is
\* stored does not depend on its gender token; the record a committed run
\* stores for a row carries the gender the fixed table gives for the row's
\* stripped token, other for any token not in the table; and every stored
\* gender is male, female or other.
C20_GenderNeverRejects ==
    [][ /\ \A r \in voters' : r.gender \in {"male", "female", "other"}
        /\ GenderDecidesNothing
        /\ \A p \in Processes :
              (procs[p].pc \in {"commit", "batch"} /\ Succeeds(p)) =>
                 \A k \in StoredRows(p) :
                    LastIn(procs[p].rows, k) =>
                       \E r \in voters' :
                          /\ r.voter_id = PyInt(procs[p].rows[k].VoterID).v
                          /\ r.gender = GenderByTable(Strip(PyStr(procs[p].rows[k].Gender)))
      ]_vars

\* The row with the token x was imported: voter 2, aged 17, is stored with
\* gender other.
C20_Witness ==
    /\ last.kind # "none"
    /\ \E k \in 1..Len(last.rows) : last.rows[k].Gender = S(<<"x">>)
    /\ \E r \in voters : r.voter_id = 2 /\ r.age = 17 /\ r.gender = "other"

\* The positions of s that hold no whitespace.
Inked(s) == { k \in 1..Len(s) : ~IsSpace(s[k]) }

\* The last whitespace-separated token of s, which has one.
LastToken(s) ==
    LET to == CHOOSE k \in Inked(s) : \A m \in Inked(s) : m <= k
        from == CHOOSE k \in 1..to :
                   /\ \A m \in k..to : m \in Inked(s)
                   /\ k > 1 => (k - 1) \notin Inked(s)
    IN  SubSeq(s, from, to)

\* s has one token: its characters other than whitespace are in one run.
OneToken(s) ==
    \A k, m \in Inked(s) : \A x \in k..m : x \in Inked(s)

\* C21: extract_surname returns the empty string for empty, whitespace-only
\* and non-string input; the single token unchanged when the name has one
\* token; otherwise the last whitespace-separated token without its trailing
\* commas, semicolons, colons and exclamation marks, periods being kept
\* (a k.c. gives k.c.).
C21_ExtractSurname ==
    call.f = "extract_surname" =>
       LET s == call.arg.s
           res == call.res.s
           marks == {",", ";", ":", "!"}
       IN  IF call.arg.t # "str" \/ Inked(s) = {} THEN res = <<>>
           ELSE IF OneToken(s) THEN res = LastToken(s)
           ELSE LET tok == LastToken(s) IN
                /\ Len(res) <= Len(tok)
                /\ res = SubSeq(tok, 1, Len(res))
                /\ \A k \in (Len(res) + 1)..Len(tok) : tok[k] \in marks
                /\ res # <<>> => res[Len(res)] \notin marks
                /\ s = <<"a"," ","k",".","c",".">> => res = <<"k",".","c",".">>

\* A name of two tokens whose last token ends with a period and a comma gave
\* the token with its period and without the comma.
C21_Witness ==
    /\ call.f = "extract_surname"
    /\ call.arg = S(<<"a"," ",".",",">>)
    /\ call.res = S(<<".">>)

\* A directory name without the suffix Province.
WithoutSuffix(name) ==
    LET suffix == <<"P","r","o","v","i","n","c","e">> IN
    IF EndsWith(name, suffix) THEN SubSeq(name, 1, Len(name) - Len(suffix)) ELSE name

\* A file name without its extension: up to its last period.
WithoutExtension(name) ==
    LET dots == { k \in 2..Len(name) : name[k] = "." } IN
    IF dots = {} THEN name
    ELSE SubSeq(name, 1, (CHOOSE k \in dots : \A m \in dots : m <= k) - 1)

\* The CSV files of an archive.
CsvOf(tree) == { k \in 1..Len(tree) : EndsWith(Lower(tree[k].name), <<".","c","s","v">>) }

\* C22: the folder-level import starts one file import per CSV file of the
\* tree and none for another file, with the province the name of the file's
\* enclosing directory without the suffix Province and the constituency the
\* file name without its extension.
C22_FolderImport ==
    [][ call.f = "process_zip_file" =>
          /\ ( procs[1].pc = "idle" /\ procs'[1].pc = "row" ) =>
                /\ call.i \in CsvOf(call.arg)
                /\ procs'[1].rows = ZipEntry.file.rows
                /\ procs'[1].ctx.has
                /\ procs'[1].ctx.constituency = S(WithoutExtension(ZipEntry.name))
                /\ ZipEntry.dirs # <<>> =>
                      procs'[1].ctx.province =
                         S(WithoutSuffix(ZipEntry.dirs[Len(ZipEntry.dirs)]))
          /\ call'.i > Len(call.arg) =>
                call'.res.total_files = Cardinality(CsvOf(call.arg))
      ]_vars

\* The chunk tasks of import m, in dispatch order.
SentFor(m) == SubSeq(jobs, imports[m].first, imports[m].first + imports[m].chunks - 1)

\* C23: the chunks import_voters_csv dispatches are a partition of the file.
\* Concatenated in dispatch order they are the row sequence read from the
\* file, no chunk is empty and none has more than 1,000 rows.
C23_ChunksPartition ==
    \A m \in 1..Len(imports) :
       /\ RowsOfJobs(SentFor(m)) = NumberedFile(imports[m].rows).rows
       /\ JobsOf(m) = imports[m].first..(imports[m].first + imports[m].chunks - 1)
       /\ \A j \in JobsOf(m) :
             /\ Len(jobs[j].rows) >= 1
             /\ Len(jobs[j].rows) <= 1000

\* A file of 2,001 rows was cut into chunks of 1,000, 1,000 and 1 rows.
C23_Witness ==
    \E m \in 1..Len(imports) :
       /\ imports[m].rows = 2001
       /\ imports[m].chunks = 3
       /\ Len(jobs[imports[m].first + 2].rows) = 1

\* C24: import_voters_csv is fire-and-forget and leaves the persistence
\* layer unchanged.  The step from its call to its return changes neither the
\* Voter table nor the UploadHistory table nor any transaction in progress;
\* the tasks it has sent are all still queued and untried when it returns,
\* the tasks sent before are as they were, and "chunks" of the descriptor it
\* returns is the number of tasks it has sent.
C24_FireAndForget ==
    [][ Len(imports') > Len(imports) =>
          LET imp == imports'[Len(imports')] IN
          /\ voters' = voters
          /\ uploads' = uploads
          /\ procs' = procs
          /\ Len(imports') = Len(imports) + 1
          /\ SubSeq(jobs', 1, Len(jobs)) = jobs
          /\ imp.chunks = Len(jobs') - Len(jobs)
          /\ \A j \in (Len(jobs) + 1)..Len(jobs') :
                /\ jobs'[j].state = "queued" /\ jobs'[j].attempts = 0
                /\ jobs'[j].imp = Len(imports')
      ]_vars

\* import_voters_csv has returned a second time while a task of the first
\* call was being processed by a worker and its own task was still queued.
C24_Witness ==
    /\ Len(imports) = 2
    /\ imports[2].chunks = 1
    /\ jobs[imports[2].first].state = "queued"
    /\ jobs[imports[1].first].state = "started"
    /\ \E p \in Processes : procs[p].pc = "batch" /\ procs[p].job = imports[1].first

\* The voter ids that two or more rows of the batch carry.
SharedIds(rows) ==
    { v \in IdsOf(rows) :
        Cardinality({ k \in 1..Len(rows) :
                        PyInt(rows[k].VoterID).ok /\ PyInt(rows[k].VoterID).v = v }) >= 2 }

\* C25: rows of one batch that share a voter id collapse to a single record.
\* When process() returns success for a batch all of whose rows it imported,
\* the Voter table holds exactly one record of every voter id that two or
\* more rows of the batch carry; and when that batch is the one committed
\* last, the run leaves those records as they were.
C25_DuplicatesCollapse ==
    [][ \A p \in Processes :
          ( /\ procs[p].pc = "commit" /\ procs'[p].pc = "idle"
            /\ procs'[p].ret.success /\ procs[p].failed = 0 ) =>
          \A v \in SharedIds(procs[p].rows) :
             /\ Cardinality({ r \in voters' : r.voter_id = v }) = 1
             /\ ( /\ last.kind = "process" /\ last.failed = 0
                  /\ last.rows = procs[p].rows /\ last.ctx = procs[p].ctx ) =>
                  RecordsOf(voters', {v}) = RecordsOf(voters, {v}) ]_vars

\* process() has committed twice in a row a batch of two rows of voter 1, and
\* the record of voter 1 carries the age of the later row.
C25_Witness ==
    /\ last.kind = "process" /\ last.runs = 2 /\ last.failed = 0
    /\ SharedIds(last.rows) = {1}
    /\ \E r \in voters : r.voter_id = 1 /\ r.age = 50

\* The stored value of a relation column as claimed: null for a missing
\* cell and for the dash, the raw value otherwise.
NullOrRaw(c) == IF IsNa(c) \/ c = S(<<"-">>) THEN None ELSE c

\* C26: for the spouse and for the parent field alike the stored value is
\* null when the raw value is missing or the placeholder dash "-", and the
\* raw value otherwise.  When process() commits a batch, the record of every
\* imported row whose voter id occurs once in the batch has spouse and parent
\* equal to NullOrRaw of the row's Spouse and Parent cells.
C26_RelationsNulled ==
    [][ \A p \in Processes :
          ( /\ procs[p].pc = "commit" /\ procs'[p].pc = "idle"
            /\ procs'[p].ret.success ) =>
          \A k \in 1..Len(procs[p].rows) :
             LET row == procs[p].rows[k] IN
             ( _process_row(row, procs[p].ctx).ok /\ OnceIn(procs[p].rows, k) ) =>
             \E r \in voters' :
                /\ r.voter_id = PyInt(row.VoterID).v
                /\ r.spouse = NullOrRaw(row.Spouse)
                /\ r.parent = NullOrRaw(row.Parent) ]_vars

\* What the caller of p's run supplied: a chunk task always sets the province
\* and constituency of its message, process() has what its caller set.
Supplied(p) ==
    IF procs[p].pc = "batch"
    THEN [has |-> TRUE, province |-> jobs[procs[p].job].province,
          constituency |-> jobs[procs[p].job].constituency]
    ELSE procs[p].ctx

\* C27: the caller's geography takes precedence.  When a run of process() or
\* of a chunk task commits, the record of every row it stored has, with an
\* override set, the override's province and constituency whatever the row's
\* Province column holds, and without an override the Province column of a
\* stored row of its voter id and a null constituency.
C27_CallerGeography ==
    [][ \A p \in Processes :
          ( procs[p].pc \in {"commit", "batch"} /\ Succeeds(p) ) =>
          LET rows == procs[p].rows
              ctx == Supplied(p)
          IN  \A k \in StoredRows(p) :
                \E r \in voters' :
                   /\ r.voter_id = PyInt(rows[k].VoterID).v
                   /\ ctx.has => /\ r.province = ctx.province
                                 /\ r.constituency = ctx.constituency
                   /\ ~ctx.has =>
                         /\ r.constituency = None
                         /\ \E m \in StoredRows(p) :
                               /\ rows[m].VoterID = rows[k].VoterID
                               /\ r.province = S(PyStr(rows[m].Province)) ]_vars

\* The view imported voter 1 without an override and the command then
\* imported the same row under province P and constituency K: the record has
\* the caller's province, not the "p" of the row.
C27_Witness ==
    /\ last.kind = "process" /\ last.ctx.has
    /\ last.rows = <<RowA>> /\ RowA.Province = S(<<"p">>)
    /\ Len(uploads) = 2 /\ uploads[1].status = "completed"
    /\ \E r \in voters :
          r.voter_id = 1 /\ r.province = S(<<"P">>) /\ r.constituency = S(<<"K">>)

\* The step is the return of reload or of add_mapping in process call'.i.
MapperReturned(f) == call' # call /\ call'.f = f

\* C28: after reload() returns and after add_mapping(s, c) returns True the
\* table the mapper holds is the set of active mappings of the store, and a
\* lookup of s in it gives c; when add_mapping returns False the table the
\* mapper holds is the one it held.
C28_TableIsStore ==
    [][ LET p == call'.i
            table == mapper'.inst[p].mappings
            s == call'.arg.s
        IN  /\ MapperReturned("reload") => table = _load_mappings(mapper'.store)
            /\ ( MapperReturned("add_mapping") /\ call'.res = I(1) ) =>
                  /\ table = _load_mappings(mapper'.store)
                  /\ CasteOf(table, s) = "janajati"
            /\ ( MapperReturned("add_mapping") /\ call'.res = I(0) ) =>
                  /\ mapper'.store = mapper.store
                  /\ mapper.inst[p].made => mapper'.inst[p] = mapper.inst[p]
      ]_vars

\* C29: every UploadHistory record that process() has completed has
\* success_count + error_count = total_records, and the result process()
\* returns when it completes the record has imported = success_count,
\* failed = error_count and total = total_records.
C29_CompletedAddsUp ==
    [][ /\ \A u \in 1..Len(uploads') :
              uploads'[u].status = "completed" =>
                 uploads'[u].success_count + uploads'[u].error_count
                    = uploads'[u].total_records
        /\ \A p \in Processes :
              ( /\ procs[p].pc = "commit" /\ procs'[p].pc = "idle"
                /\ uploads'[procs[p].upload].status = "completed" ) =>
                 LET u == uploads'[procs[p].upload]
                     ret == procs'[p].ret
                 IN  /\ ret.success
                     /\ ret.imported = u.success_count
                     /\ ret.failed = u.error_count
                     /\ ret.total = u.total_records
                     /\ u.total_records = Len(procs[p].rows) ]_vars

\* process() has completed the record of a file of two rows, one imported
\* and one failed.
C29_Witness ==
    \E u \in 1..Len(uploads) :
       /\ uploads[u].status = "completed"
       /\ uploads[u].total_records = 2
       /\ uploads[u].success_count = 1 /\ uploads[u].error_count = 1
       /\ procs[1].pc = "idle" /\ procs[1].ret.success
       /\ procs[1].ret.imported = 1 /\ procs[1].ret.failed = 1

\* The sum of a count over the files of the log that process() imported
\* with success.
RECURSIVE SumLog(_, _)
SumLog(log, field) ==
    IF log = <<>> THEN 0
    ELSE (IF Head(log).success THEN Head(log)[field] ELSE 0) + SumLog(Tail(log), field)

\* The CSV files among the first n files of the walk.
CsvUpTo(tree, n) == { k \in 1..n : IsCsv(tree[k].name) }

\* C30: a file that fails does not stop the walk of process_zip_file, and
\* its summary adds up.  Between two files and at the end of the walk every
\* CSV file passed so far has been counted and has its outcome; total_files
\* is processed_files plus the number of errors; total_records,
\* imported_records and failed_records are the sums of total, imported and
\* failed over the files process() imported with success; and at the end
\* total_files is the number of CSV files of the archive.
C30_ZipSummary ==
    ( call.f = "process_zip_file" /\ call.at = 0 ) =>
       LET res == call.res
           log == call.log
       IN  /\ res.total_files = res.processed_files + Len(res.errors)
           /\ res.total_files = Cardinality(CsvUpTo(call.arg, call.i - 1))
           /\ Len(log) = res.total_files
           /\ res.processed_files = Cardinality({ k \in 1..Len(log) : log[k].success })
           /\ res.total_records = SumLog(log, "total")
           /\ res.imported_records = SumLog(log, "imported")
           /\ res.failed_records = SumLog(log, "failed")
           /\ call.i > Len(call.arg) =>
                 res.total_files = Cardinality(CsvUpTo(call.arg, Len(call.arg)))

\* The walk of an archive of two CSV files has ended: the first file failed
\* after process() had imported a row (its transaction was rolled back), the
\* second was processed, and the summary counts only the second.
C30_Witness ==
    /\ call.f = "process_zip_file" /\ call.at = 0 /\ call.i > Len(call.arg)
    /\ Len(call.log) = 2
    /\ ~call.log[1].success /\ call.log[1].imported > 0
    /\ call.log[2].success
    /\ call.res.total_files = 2 /\ call.res.processed_files = 1
    /\ Len(call.res.errors) = 1
    /\ call.res.imported_records = call.log[2].imported

====
